---- MODULE Spec2Model ----
(***************************************************************************)
(* Model of the epstein-files text pipeline: ingest.py, clean.py,          *)
(* classify.py, condense.py and the search handler of app.py.              *)
(*                                                                         *)
(* Texts are TLA+ strings (sequences of characters); the Python string     *)
(* and regular-expression operations the code uses are defined below,      *)
(* character by character.                                                 *)
(***************************************************************************)
EXTENDS Integers, Sequences, FiniteSets, TLC

VARIABLES
    schema,      \* tables and added columns present in epstein.db
    documents,   \* rows of table documents, indexed by id (1..Len)
    pages,       \* rows of table pages, indexed by id (1..Len)
    search,      \* rows of the fts5 table search: set of [rowid, filename, page_num, text]
    lastRun,     \* the run or request that ended last: what it was and what it printed
    issued,      \* the SQL queries of the /api/search request that ended last, in order
    response,    \* the HTTP response of the /api/search request that ended last
    fn,          \* the pure function applied last ("none" before any call)
    arg,         \* the arguments of the function call
    ret,         \* the value the call returned
    calls,       \* number of calls made on arg so far
    enriched,    \* columns ai_summary, news_score, news_reason of the rows batch_fast.py wrote, by document id
    batchRun,    \* the run of batch_fast.py: its position and what it did so far
    cleanRun     \* the run of clean.py that other processes can interleave with: its position and its open transaction

vars == <<schema, documents, pages, search, lastRun, issued, response, fn, arg, ret, calls, enriched, batchRun, cleanRun>>

batchVars == <<enriched, batchRun>>

dbVars == <<schema, documents, pages, search, lastRun, issued, response, batchVars, cleanRun>>

fnVars == <<fn, arg, ret, calls>>

(***************************************************************************)
(* Python str operations                                                   *)
(***************************************************************************)

Ch(s, i) == SubSeq(s, i, i)

CharSet(s) == { Ch(s, i) : i \in 1..Len(s) }

UpperChars == CharSet("ABCDEFGHIJKLMNOPQRSTUVWXYZ")

LowerChars == CharSet("abcdefghijklmnopqrstuvwxyz")

AlphaChars == UpperChars \cup LowerChars

DigitChars == CharSet("0123456789")

\* \w of the re module
WordChars == AlphaChars \cup DigitChars \cup {"_"}

\* \s of the re module, and the characters str.strip() removes
WhiteChars == {" ", "\t", "\n", "\r", "\f"}

Min(S) == CHOOSE x \in S : \A y \in S : x <= y

\* c.lower() of one character
LowerCh(c) ==
    IF c \in UpperChars
    THEN Ch("abcdefghijklmnopqrstuvwxyz", CHOOSE i \in 1..26 : Ch("ABCDEFGHIJKLMNOPQRSTUVWXYZ", i) = c)
    ELSE c

\* c.upper() of one character
UpperCh(c) ==
    IF c \in LowerChars
    THEN Ch("ABCDEFGHIJKLMNOPQRSTUVWXYZ", CHOOSE i \in 1..26 : Ch("abcdefghijklmnopqrstuvwxyz", i) = c)
    ELSE c

RECURSIVE MapRange(_, _, _, _)
\* the characters s[lo..hi] mapped one by one (split in halves)
MapRange(F(_), s, lo, hi) ==
    IF lo > hi THEN ""
    ELSE IF lo = hi THEN F(Ch(s, lo))
    ELSE LET mid == (lo + hi) \div 2
         IN  MapRange(F, s, lo, mid) \o MapRange(F, s, mid + 1, hi)

\* s.lower()
Lower(s) == MapRange(LowerCh, s, 1, Len(s))

\* s.upper()
Upper(s) == MapRange(UpperCh, s, 1, Len(s))

RECURSIVE FirstNonWhite(_, _)
FirstNonWhite(s, i) ==
    IF i > Len(s) THEN i
    ELSE IF Ch(s, i) \in WhiteChars THEN FirstNonWhite(s, i + 1) ELSE i

RECURSIVE LastNonWhite(_, _)
LastNonWhite(s, i) ==
    IF i < 1 THEN 0
    ELSE IF Ch(s, i) \in WhiteChars THEN LastNonWhite(s, i - 1) ELSE i

\* s.strip()
Strip(s) == SubSeq(s, FirstNonWhite(s, 1), LastNonWhite(s, Len(s)))

\* the literal lit occurs in s at position i
StartsAt(s, i, lit) ==
    /\ i >= 1
    /\ i + Len(lit) - 1 <= Len(s)
    /\ SubSeq(s, i, i + Len(lit) - 1) = lit

\* lit in s
Contains(s, lit) == \E i \in 1..(Len(s) - Len(lit) + 1) : StartsAt(s, i, lit)

\* positions at which lit occurs in s
Occurrences(s, lit) == { i \in 1..(Len(s) - Len(lit) + 1) : StartsAt(s, i, lit) }

\* s.count(lit), for a literal no two occurrences of which overlap
Count(s, lit) == Cardinality(Occurrences(s, lit))

RECURSIVE Split(_, _)
\* s.split(sep)
Split(s, sep) ==
    LET occ == Occurrences(s, sep)
    IN  IF occ = {} THEN <<s>>
        ELSE LET i == Min(occ)
             IN  <<SubSeq(s, 1, i - 1)>> \o Split(SubSeq(s, i + Len(sep), Len(s)), sep)

\* sum(1 for c in s if c in chars)
CountChars(s, chars) == Cardinality({ i \in 1..Len(s) : Ch(s, i) \in chars })

\* s[:1] is at the start of the text or of a line (^ under re.MULTILINE)
LineStart(s, i) == i = 1 \/ Ch(s, i - 1) = "\n"

\* \b before position i, where s[i] is a word character
WordStart(s, i) ==
    /\ i <= Len(s)
    /\ Ch(s, i) \in WordChars
    /\ (i = 1 \/ Ch(s, i - 1) \notin WordChars)

\* re.search(r'(l1|l2|...)', s) for literals
SearchAny(s, lits) == \E l \in lits : Contains(s, l)

\* re.search(r'^(l1|l2|...)', s, re.MULTILINE) for literals
SearchLineStart(s, lits) ==
    \E i \in 1..Len(s) : LineStart(s, i) /\ \E l \in lits : StartsAt(s, i, l)

\* re.search(r'\b(l1|l2|...)', s) for literals that begin with a word character
SearchWordStart(s, lits) ==
    \E i \in 1..Len(s) : WordStart(s, i) /\ \E l \in lits : StartsAt(s, i, l)

\* re.search(r'\b(l\s)', s): the literal followed by one whitespace character
SearchWordStartThenSpace(s, lits) ==
    \E i \in 1..Len(s) :
        /\ WordStart(s, i)
        /\ \E l \in lits : /\ StartsAt(s, i, l)
                           /\ i + Len(l) <= Len(s)
                           /\ Ch(s, i + Len(l)) \in WhiteChars

\* re.search(r'a.*b', s) without re.DOTALL: b follows a on the same line
SearchSameLine(s, a, b) ==
    \E i \in Occurrences(s, a) :
        \E j \in Occurrences(s, b) :
            /\ j >= i + Len(a)
            /\ \A k \in (i + Len(a))..(j - 1) : Ch(s, k) # "\n"

(***************************************************************************)
(* clean.py: clean_text                                                    *)
(***************************************************************************)

RECURSIVE MapIndex(_, _, _, _)
\* the replacements F(s, i) of the positions lo..hi of s, concatenated
MapIndex(F(_, _), s, lo, hi) ==
    IF lo > hi THEN ""
    ELSE IF lo = hi THEN F(s, lo)
    ELSE LET mid == (lo + hi) \div 2
         IN  MapIndex(F, s, lo, mid) \o MapIndex(F, s, mid + 1, hi)

RECURSIVE Join(_, _)
\* sep.join(parts)
Join(parts, sep) ==
    IF parts = <<>> THEN ""
    ELSE IF Len(parts) = 1 THEN parts[1]
    ELSE parts[1] \o sep \o Join(Tail(parts), sep)

\* s consists of one or more digits
IsDigits(s) == s # "" /\ \A i \in 1..Len(s) : Ch(s, i) \in DigitChars

RECURSIVE DigitsEnd(_, _)
\* the position after the run of digits that starts at i (i itself if none)
DigitsEnd(s, i) ==
    IF i <= Len(s) /\ Ch(s, i) \in DigitChars THEN DigitsEnd(s, i + 1) ELSE i

\* re.match(r'^\d{1,3}$', s)
IsLineNumber(s) == Len(s) <= 3 /\ IsDigits(s)

\* re.match(r'^EFTA\d+$', s)
IsBatesStamp(s) == StartsAt(s, 1, "EFTA") /\ IsDigits(SubSeq(s, 5, Len(s)))

\* re.match(r'^Page \d+ of \d+', s)
IsPageHeader(s) ==
    /\ StartsAt(s, 1, "Page ")
    /\ LET e == DigitsEnd(s, 6)
       IN  /\ e > 6
           /\ StartsAt(s, e, " of ")
           /\ DigitsEnd(s, e + 4) > e + 4

\* 'WAS NOT SCANNED' in s.upper()
IsScanArtifact(s) == Contains(Upper(s), "WAS NOT SCANNED")

\* the stripped line s is dropped by clean_text
SkipLine(s) ==
    \/ s = ""
    \/ IsLineNumber(s)
    \/ IsBatesStamp(s)
    \/ IsPageHeader(s)
    \/ IsScanArtifact(s)

RECURSIVE KeptLines(_)
\* the stripped lines clean_text keeps, in order
KeptLines(lines) ==
    IF lines = <<>> THEN <<>>
    ELSE LET s == Strip(Head(lines))
         IN  (IF SkipLine(s) THEN <<>> ELSE <<s>>) \o KeptLines(Tail(lines))

\* re.sub(r'\n{3,}', '\n\n', s): a newline that follows two newlines goes
CollapseNewlines(s) ==
    MapIndex(LAMBDA t, i :
                 IF Ch(t, i) = "\n" /\ i >= 3 /\ Ch(t, i - 1) = "\n" /\ Ch(t, i - 2) = "\n"
                 THEN "" ELSE Ch(t, i),
             s, 1, Len(s))

\* re.sub(r'(?<=[a-z,])\n(?=[a-z])', ' ', s)
RejoinLines(s) ==
    MapIndex(LAMBDA t, i :
                 IF /\ Ch(t, i) = "\n"
                    /\ i > 1 /\ Ch(t, i - 1) \in LowerChars \cup {","}
                    /\ i < Len(t) /\ Ch(t, i + 1) \in LowerChars
                 THEN " " ELSE Ch(t, i),
             s, 1, Len(s))

\* clean_text(text)
clean_text(text) ==
    IF text = "" \/ Len(Strip(text)) < 10 THEN text
    ELSE LET cleaned == KeptLines(Split(text, "\n"))
             joined == Join(cleaned, "\n")
         IN  Strip(RejoinLines(CollapseNewlines(joined)))

(***************************************************************************)
(* classify.py                                                             *)
(***************************************************************************)

\* the document types of the specification (section 4.2)
DocTypes ==
    {"empty", "scan_garbage", "email", "deposition", "law_enforcement", "legal",
     "phone_records", "file_listing", "evidence_list", "document", "minimal", "other"}

EmailHeaders == {"from:", "sent:", "to:", "subject:", "date:"}

DepositionMarkers == {"deposition", "testimony", "grand jury", "WITNESS", "sworn"}

DepositionDialogue == {"Q.", "A."}

LawEnforcementMarkers ==
    {"fbi", "case number", "case summary", "investigation", "indicted", "arrest",
     "convicted", "bureau"}

LegalMarkers ==
    {"court", "motion", "order", "plaintiff", "defendant", "docket", "filed", "judge",
     "verdict", "sentence"}

PhoneMarkers == {"fax activity", "call detail", "call log"}

EvidenceMarkers == {"evidence", "property", "contents", "item quantity"}

names ==
    {"epstein", "maxwell", "ghislaine", "prince andrew", "giuffre", "roberts",
     "dershowitz", "clinton", "trump", "black", "wexner", "brunel", "dubin"}

MinOf(a, b) == IF a < b THEN a ELSE b

MaxOf(a, b) == IF a > b THEN a ELSE b

\* classify without its last line score = min(score, 100)
ClassifyClampMissing(score) == score

\* score = min(score, 100) of classify
ClassifyClamp(score) == MinOf(score, 100)

\* reclassify without its last line score = min(score, 100)
ReclassifyClampMissing(score) == score

\* score = min(score, 100) of reclassify
ReclassifyClamp(score) == MinOf(score, 100)

\* a value that may be None: <<>> is None, <<s>> is the string s
None == <<>>

Some(s) == <<s>>

\* text or ""
OrEmpty(text) == IF text = None THEN "" ELSE text[1]

\* a step that takes the type over whatever the earlier steps decided
UnlessTypedForced(doc_type, new_type) == new_type

\* doc_type = new_type if doc_type == "other" else doc_type
UnlessTyped(doc_type, new_type) == IF doc_type = "other" THEN new_type ELSE doc_type

\* doc_type == "other" and score <= 20
UnidentifiedUpTo20(doc_type, score) == doc_type = "other" /\ score <= 20

\* doc_type == "other" and score < 20
Unidentified(doc_type, score) == doc_type = "other" /\ score < 20

\* lines 21-80 of classify: the type and score decided from which markers
\* the text holds
ClassifyByMarkers(char_count, isEmail, isDepo, isLaw, isLegal, isPhone, isListing, isEvidence, name_hits) ==
    LET t3 == IF isEmail THEN "email" ELSE "other"
        s3 == IF isEmail THEN 60 ELSE 0
        t4 == IF isDepo THEN UnlessTyped(t3, "deposition") ELSE t3
        s4 == IF isDepo THEN MaxOf(s3, 70) ELSE s3
        t5 == IF isLaw THEN "law_enforcement" ELSE t4
        s5 == IF isLaw THEN MaxOf(s4, 80) ELSE s4
        t6 == IF isLegal THEN UnlessTyped(t5, "legal") ELSE t5
        s6 == IF isLegal THEN MaxOf(s5, 50) ELSE s5
        t7 == IF isPhone THEN "phone_records" ELSE t6
        s7 == IF isPhone THEN 20 ELSE s6
        t8 == IF isListing THEN "file_listing" ELSE t7
        s8 == IF isListing THEN 10 ELSE s7
        t9 == IF isEvidence THEN "evidence_list" ELSE t8
        s9 == IF isEvidence THEN 30 ELSE s8
        s10 == s9 + name_hits * 10
        s11 == s10 + (IF char_count > 1000 THEN 10 ELSE 0)
                   + (IF char_count > 5000 THEN 10 ELSE 0)
        score == ClassifyClamp(s11)
    IN  IF Unidentified(t9, score)
        THEN IF char_count < 100
             THEN [doc_type |-> "minimal", score |-> score]
             ELSE [doc_type |-> "document", score |-> score]
        ELSE [doc_type |-> t9, score |-> score]

\* classify(text, page_count); text is None or Some(str)
classify(text, page_count) ==
    LET stripped == Strip(OrEmpty(text))
        char_count == Len(stripped)
        letters == CountChars(stripped, AlphaChars)
        lower == Lower(stripped)
    IN  IF char_count < 20 THEN [doc_type |-> "empty", score |-> 0]
        ELSE IF letters * 10 < 3 * char_count THEN [doc_type |-> "scan_garbage", score |-> 0]
        ELSE ClassifyByMarkers(
                 char_count,
                 SearchLineStart(lower, EmailHeaders),
                 \/ SearchWordStart(lower, DepositionMarkers)
                 \/ SearchWordStartThenSpace(lower, DepositionDialogue),
                 SearchWordStart(lower, LawEnforcementMarkers),
                 SearchWordStart(lower, LegalMarkers),
                 \/ SearchAny(lower, PhoneMarkers)
                 \/ SearchSameLine(lower, "phone", "record"),
                 \/ Count(lower, ".tif") > 3
                 \/ Count(lower, ".jpg") > 3
                 \/ Count(lower, ".pdf") > 5,
                 SearchAny(lower, EvidenceMarkers),
                 Cardinality({ n \in names : Contains(lower, n) }))

(***************************************************************************)
(* condense.py: JUNK_PATTERNS, is_junk_page, condense_text                 *)
(*                                                                         *)
(* A pattern is an operator P(s, ls, i), with ls = s.lower(): the position *)
(* just after the match of the pattern that starts at position i of s, or  *)
(* 0 when the pattern does not match at i.  Every match is non-empty.      *)
(***************************************************************************)

RECURSIVE SubEnds(_, _, _)
\* s from position pos on without the matches, leftmost first and not
\* overlapping; ends[i] is the position just after the match that starts at i,
\* 0 when there is none
SubEnds(s, ends, pos) ==
    LET hits == { i \in pos..Len(s) : ends[i] > 0 }
    IN  IF hits = {} THEN SubSeq(s, pos, Len(s))
        ELSE SubSeq(s, pos, Min(hits) - 1) \o SubEnds(s, ends, ends[Min(hits)])

\* re.sub(pattern, '', s, flags=re.MULTILINE | re.DOTALL), from position pos on
Sub(P(_, _, _), s, ls, pos) == SubEnds(s, [i \in 1..Len(s) |-> P(s, ls, i)], pos)

\* the first position >= p at which the lookahead (?=\n\n|\Z) holds
BlockEnd(s, p) ==
    Min({ j \in p..(Len(s) - 1) : Ch(s, j) = "\n" /\ Ch(s, j + 1) = "\n" }
        \cup {Len(s) + 1})

\* (?i)(l1|l2|...).*?(?=\n\n|\Z)
UntilBlockEnd(lits, s, ls, i) ==
    IF \E l \in lits : StartsAt(ls, i, l) THEN BlockEnd(s, i) ELSE 0

\* the position after the first occurrence of lit in s at or after p, 0 if none
AfterNext(s, lit, p) ==
    LET occ == { j \in p..(Len(s) - Len(lit) + 1) : StartsAt(s, j, lit) }
    IN  IF p = 0 \/ occ = {} THEN 0 ELSE Min(occ) + Len(lit)

\* (?i)a.*?b under re.DOTALL
Lazy2(a, b, ls, i) ==
    IF StartsAt(ls, i, a) THEN AfterNext(ls, b, i + Len(a)) ELSE 0

\* (?i)a.*?b.*?c under re.DOTALL
Lazy3(a, b, c, ls, i) ==
    IF StartsAt(ls, i, a) THEN AfterNext(ls, c, AfterNext(ls, b, i + Len(a))) ELSE 0

RECURSIVE UpperEnd(_, _)
\* the position after the run of [A-Z] that starts at i (i itself if none)
UpperEnd(s, i) ==
    IF i <= Len(s) /\ Ch(s, i) \in UpperChars THEN UpperEnd(s, i + 1) ELSE i

RECURSIVE WordEnd(_, _)
\* the position after the run of \w that starts at i (i itself if none)
WordEnd(s, i) ==
    IF i <= Len(s) /\ Ch(s, i) \in WordChars THEN WordEnd(s, i + 1) ELSE i

RECURSIVE SpacedWords(_, _, _)
\* w1\s+w2\s+...: the position after the last word, 0 if no match at i
SpacedWords(ls, i, words) ==
    IF ~StartsAt(ls, i, Head(words)) THEN 0
    ELSE LET e == i + Len(Head(words))
         IN  IF Len(words) = 1 THEN e
             ELSE IF FirstNonWhite(ls, e) = e THEN 0
             ELSE SpacedWords(ls, FirstNonWhite(ls, e), Tail(words))

\* GM_[A-Z]+_\d+\s* at position i (case-sensitive)
ExhibitStamp(s, i) ==
    LET c == UpperEnd(s, i + 3)
        d == DigitsEnd(s, c + 1)
    IN  IF StartsAt(s, i, "GM_") /\ c > i + 3 /\ StartsAt(s, c, "_") /\ d > c + 1
        THEN FirstNonWhite(s, d) ELSE 0

RECURSIVE ExhibitStamps(_, _)
\* (?:GM_[A-Z]+_\d+\s*)+ at position i
ExhibitStamps(s, i) ==
    LET e == ExhibitStamp(s, i)
    IN  IF e = 0 THEN 0
        ELSE LET n == ExhibitStamps(s, e) IN IF n > 0 THEN n ELSE e

RECURSIVE ListingRun(_, _, _)
RECURSIVE ListingWord(_, _, _, _, _)
RECURSIVE ListingSpace(_, _, _, _)

\* the rest of (?:[A-Z]+\d+[._]\w+\s*){3,} at position i after c complete
\* items, as the backtracking matcher resolves it: one more item if that
\* leads to a match, else stop here when c >= 3
ListingRun(s, i, c) ==
    LET a == UpperEnd(s, i)
        d == DigitsEnd(s, a)
        w == WordEnd(s, d + 1)
        r == IF a > i /\ d > a /\ d <= Len(s) /\ Ch(s, d) \in {".", "_"} /\ w > d + 1
             THEN ListingWord(s, d + 1, w - (d + 1), w, c + 1)
             ELSE 0
    IN  IF r > 0 THEN r ELSE IF c >= 3 THEN i ELSE 0

\* \w+ of the item takes m characters from p (greedy: longest first)
ListingWord(s, p, m, w, c) ==
    IF m < 1 THEN 0
    ELSE LET q == p + m
             r == IF q = w THEN ListingSpace(s, q, FirstNonWhite(s, q) - q, c)
                  ELSE ListingRun(s, q, c)
         IN  IF r > 0 THEN r ELSE ListingWord(s, p, m - 1, w, c)

\* \s* of the item takes k characters from q (greedy: longest first)
ListingSpace(s, q, k, c) ==
    IF k < 0 THEN 0
    ELSE LET r == ListingRun(s, q + k, c)
         IN  IF r > 0 THEN r ELSE ListingSpace(s, q, k - 1, c)

\* JUNK_PATTERNS[n - 1] matched at position i of s (ls is s.lower())
JunkPattern(n, s, ls, i) ==
    CASE n = 1 ->
           \* r'(?i)chain of custody.*?(?=\n\n|\Z)'
           UntilBlockEnd({"chain of custody"}, s, ls, i)
      [] n = 2 ->
           \* r'(?i)evidence envelope.*?(?=\n\n|\Z)'
           UntilBlockEnd({"evidence envelope"}, s, ls, i)
      [] n = 3 ->
           \* r'(?i)enclosure:.*?(?=\n\n|\Z)'
           UntilBlockEnd({"enclosure:"}, s, ls, i)
      [] n = 4 ->
           \* r'(?i)(?:original|duplicate|enhanced original)\s*$': the word, then the
           \* longest run of whitespace that ends at the end of s or before a newline
           LET ms == { l \in {"original", "duplicate", "enhanced original"} : StartsAt(ls, i, l) }
           IN  IF ms = {} THEN 0
               ELSE LET e == i + Len(CHOOSE l \in ms : TRUE)
                        f == FirstNonWhite(s, e)
                        ends == { p \in e..f : p = Len(s) + 1 \/ Ch(s, p) = "\n" }
                    IN  IF ends = {} THEN 0 ELSE -Min({ -p : p \in ends })
      [] n = 5 ->
           \* r'(?i)magnetic tape.*?computer disk.*?printed material'
           Lazy3("magnetic tape", "computer disk", "printed material", ls, i)
      [] n = 6 ->
           \* r'(?i)court authorized intercept.*?(?=\n\n|\Z)'
           UntilBlockEnd({"court authorized intercept"}, s, ls, i)
      [] n = 7 ->
           \* r'(?i)please consider the environment before printing.*'
           IF StartsAt(ls, i, "please consider the environment before printing")
           THEN Len(s) + 1 ELSE 0
      [] n = 8 ->
           \* r'(?i)this communication may contain confidential.*?(?=\n\n|\Z)'
           UntilBlockEnd({"this communication may contain confidential"}, s, ls, i)
      [] n = 9 ->
           \* r'(?i)this e-?mail (?:and any|is|may).*?(?=\n\n|\Z)'
           UntilBlockEnd({"this email and any", "this email is", "this email may",
                          "this e-mail and any", "this e-mail is", "this e-mail may"}, s, ls, i)
      [] n = 10 ->
           \* r'(?i)if you (?:are not|have received) the intended recipient.*?(?=\n\n|\Z)'
           UntilBlockEnd({"if you are not the intended recipient",
                          "if you have received the intended recipient"}, s, ls, i)
      [] n = 11 ->
           \* r'(?i)disclaimer:.*?(?=\n\n|\Z)'
           UntilBlockEnd({"disclaimer:"}, s, ls, i)
      [] n = 12 ->
           \* r'(?i)privileged.*?attorney.*?client.*?(?=\n\n|\Z)'
           LET e == Lazy3("privileged", "attorney", "client", ls, i)
           IN  IF e = 0 THEN 0 ELSE BlockEnd(s, e)
      [] n = 13 ->
           \* r'(?i)item\s+was\s+not\s+scanned\s+description'
           SpacedWords(ls, i, <<"item", "was", "not", "scanned", "description">>)
      [] n = 14 ->
           \* r'(?i)grand jury material.*?criminal procedure'
           Lazy2("grand jury material", "criminal procedure", ls, i)
      [] n = 15 ->
           \* r'(?i)this document contains neither recommendations nor conclusions of the fbi.*?(?=\n\n|\Z)'
           UntilBlockEnd({"this document contains neither recommendations nor conclusions of the fbi"},
                         s, ls, i)
      [] n = 16 ->
           \* r'(?i)it is the property of the fbi.*?(?=\n\n|\Z)'
           UntilBlockEnd({"it is the property of the fbi"}, s, ls, i)
      [] n = 17 ->
           \* r'(?:GM_[A-Z]+_\d+\s*)+'
           ExhibitStamps(s, i)
      [] n = 18 ->
           \* r'(?:[A-Z]+\d+[._]\w+\s*){3,}'
           ListingRun(s, i, 0)

\* re.sub(pat, '', s, flags=re.MULTILINE | re.DOTALL)
StripPattern(P(_, _, _), s) == Sub(P, s, Lower(s), 1)

\* for pat in JUNK_PATTERNS: cleaned = re.sub(pat, '', cleaned, ...)
StripJunk(page) ==
    LET s01 == StripPattern(LAMBDA s, ls, i : JunkPattern(1, s, ls, i), page)
        s02 == StripPattern(LAMBDA s, ls, i : JunkPattern(2, s, ls, i), s01)
        s03 == StripPattern(LAMBDA s, ls, i : JunkPattern(3, s, ls, i), s02)
        s04 == StripPattern(LAMBDA s, ls, i : JunkPattern(4, s, ls, i), s03)
        s05 == StripPattern(LAMBDA s, ls, i : JunkPattern(5, s, ls, i), s04)
        s06 == StripPattern(LAMBDA s, ls, i : JunkPattern(6, s, ls, i), s05)
        s07 == StripPattern(LAMBDA s, ls, i : JunkPattern(7, s, ls, i), s06)
        s08 == StripPattern(LAMBDA s, ls, i : JunkPattern(8, s, ls, i), s07)
        s09 == StripPattern(LAMBDA s, ls, i : JunkPattern(9, s, ls, i), s08)
        s10 == StripPattern(LAMBDA s, ls, i : JunkPattern(10, s, ls, i), s09)
        s11 == StripPattern(LAMBDA s, ls, i : JunkPattern(11, s, ls, i), s10)
        s12 == StripPattern(LAMBDA s, ls, i : JunkPattern(12, s, ls, i), s11)
        s13 == StripPattern(LAMBDA s, ls, i : JunkPattern(13, s, ls, i), s12)
        s14 == StripPattern(LAMBDA s, ls, i : JunkPattern(14, s, ls, i), s13)
        s15 == StripPattern(LAMBDA s, ls, i : JunkPattern(15, s, ls, i), s14)
        s16 == StripPattern(LAMBDA s, ls, i : JunkPattern(16, s, ls, i), s15)
        s17 == StripPattern(LAMBDA s, ls, i : JunkPattern(17, s, ls, i), s16)
        s18 == StripPattern(LAMBDA s, ls, i : JunkPattern(18, s, ls, i), s17)
    IN  s18

\* is_junk_page(text)
is_junk_page(text) ==
    LET s == Strip(text)
        letters == CountChars(s, AlphaChars)
        digits == CountChars(s, DigitChars)
    IN  \/ Len(s) < 15
        \/ letters * 4 < Len(s)
        \/ (Len(s) > 50 /\ digits * 10 > 4 * Len(s))

RECURSIVE KeptPages(_)
\* the list kept that condense_text builds from the pages
KeptPages(pgs) ==
    IF pgs = <<>> THEN <<>>
    ELSE (IF is_junk_page(Head(pgs)) THEN <<>>
          ELSE SelectSeq(<<Strip(CollapseNewlines(StripJunk(Head(pgs))))>>,
                         LAMBDA cleaned : Len(cleaned) > 15))
         \o KeptPages(Tail(pgs))

\* condense_text with a rule line between the kept pages
condense_text_ruled(full_text) ==
    IF full_text = "" THEN ""
    ELSE Join(KeptPages(Split(full_text, "\n\n")), "\n\n----\n\n")

\* condense_text(full_text)
condense_text(full_text) ==
    IF full_text = "" THEN ""
    ELSE Join(KeptPages(Split(full_text, "\n\n")), "\n\n")

(***************************************************************************)
(* condense.py: reclassify                                                 *)
(***************************************************************************)

key_names ==
    {"epstein", "maxwell", "ghislaine", "prince andrew", "giuffre", "roberts",
     "dershowitz", "clinton", "trump", "black", "wexner", "brunel", "dubin",
     "victim", "minor", "underage", "abuse", "trafficking"}

InvestigativeMarkers ==
    {"investigation", "arrest", "surveillance", "interview", "witness", "statement",
     "allegation"}

LegalSubstanceMarkers ==
    {"plea agreement", "indictment", "non-prosecution", "immunity", "cooperat", "sentenc"}

\* len(re.findall(r'\b[QA]\.\s', s)); two matches cannot overlap
QaCount(s) ==
    Cardinality({ i \in 1..(Len(s) - 2) :
        /\ Ch(s, i) \in {"Q", "A"}
        /\ WordStart(s, i)
        /\ Ch(s, i + 1) = "."
        /\ Ch(s, i + 2) \in WhiteChars })

\* len(re.findall(r'[.!?]\s+[A-Z]', s)); two matches cannot overlap
SentenceCount(s) ==
    Cardinality({ i \in 1..(Len(s) - 2) :
        /\ Ch(s, i) \in {".", "!", "?"}
        /\ Ch(s, i + 1) \in WhiteChars
        /\ LET j == FirstNonWhite(s, i + 1)
           IN  j <= Len(s) /\ Ch(s, j) \in UpperChars })

\* score = max(score - 20, 0)
Demote(score) == MaxOf(score - 20, 0)

\* the investigative branch without its test of the current type
KeepsTypeNever(doc_type) == FALSE

\* doc_type in ('deposition', 'email'): the types the investigative branch
\* leaves alone
KeepsType(doc_type) == doc_type \in {"deposition", "email"}

\* the dialogue branch taken from seven markers on
IsDialogueOverSix(qa_count) == qa_count > 6

\* if qa_count > 5:
IsDialogue(qa_count) == qa_count > 5

\* lines 69-123 of reclassify: the type and score decided from what the
\* condensed text holds
ReclassifyByMarkers(doc_type, name_hits, qa_count, sentences, investigative, legal, emailLine, tabular, length) ==
    LET s1 == name_hits * 8
        t2 == IF IsDialogue(qa_count) THEN "deposition" ELSE doc_type
        s2 == IF IsDialogue(qa_count) THEN s1 + 30 ELSE s1
        s3 == IF sentences > 5 THEN s2 + 20
              ELSE IF sentences > 2 THEN s2 + 10 ELSE s2
        s4 == IF investigative THEN s3 + 20 ELSE s3
        t4 == IF investigative /\ ~KeepsType(t2)
              THEN "law_enforcement" ELSE t2
        s5 == IF legal THEN s4 + 25 ELSE s4
        isEmail == emailLine /\ (sentences > 2 \/ length > 300)
        t6 == IF isEmail THEN "email" ELSE t4
        s6 == IF isEmail THEN s5 + 15 ELSE s5
        s7 == IF tabular THEN Demote(s6) ELSE s6
        s8 == s7 + (IF length > 2000 THEN 10 ELSE 0)
                 + (IF length > 5000 THEN 10 ELSE 0)
    IN  [doc_type |-> t6, score |-> ReclassifyClamp(s8)]

\* len(lines) > 10 and short_lines / len(lines) > 0.7
Tabular(lines) ==
    /\ Len(lines) > 10
    /\ Cardinality({ k \in 1..Len(lines) : Len(Strip(lines[k])) < 20 }) * 10 > 7 * Len(lines)

\* reclassify(text, condensed, doc_type, page_count)
reclassify(text, condensed, doc_type, page_count) ==
    IF condensed = "" \/ Len(Strip(condensed)) < 30
    THEN [doc_type |-> "empty", score |-> 0]
    ELSE LET lower == Lower(condensed)
         IN  ReclassifyByMarkers(
                 doc_type,
                 Cardinality({ n \in key_names : Contains(lower, n) }),
                 QaCount(condensed),
                 SentenceCount(condensed),
                 SearchAny(lower, InvestigativeMarkers),
                 SearchAny(lower, LegalSubstanceMarkers),
                 SearchLineStart(condensed, {"From:", "Subject:"}),
                 Tabular(Split(condensed, "\n")),
                 Len(condensed))

(***************************************************************************)
(* ingest.py                                                               *)
(***************************************************************************)

\* the *.pdf files glob can find under BASE_DIR, sorted by path; status tells
\* whether fitz opens the file and extracts its pages
Disk ==
    << [path |-> "a/EFTA0001.pdf", status |-> "ok",
        pages |-> << "Page 1 of 2\nThe grand jury heard the witness,\nand took a statement.\n",
                     "12\nitem was not\nscanned here\n" >>],
       [path |-> "b/EFTA0001.pdf", status |-> "open_fails", pages |-> <<>>],
       [path |-> "b/EFTA0002.pdf", status |-> "ok",
        pages |-> << "notes about a lunch meeting last week, nothing else to say ???\n" >>],
       [path |-> "c/EFTA0004.pdf", status |-> "extract_fails", pages |-> << "" >>] >>

\* bates_map: the pairs parse_dat reads from the *.DAT manifests
BatesMap == { <<"EFTA0001", "EFTA0009">> }

\* largest number of files one ingest run finds
MaxBatch == 2

Batches == { b \in SUBSET (1..Len(Disk)) : Cardinality(b) <= MaxBatch }

RECURSIVE SortedSeq(_)
\* sorted(S) for a set of integers
SortedSeq(S) ==
    IF S = {} THEN <<>> ELSE <<Min(S)>> \o SortedSeq(S \ {Min(S)})

\* os.path.basename(path)
Basename(path) ==
    LET slashes == Occurrences(path, "/")
    IN  IF slashes = {} THEN path
        ELSE SubSeq(path, 1 - Min({ -i : i \in slashes }), Len(path))

\* filename.replace(".pdf", "")
BatesStart(filename) ==
    Sub(LAMBDA s, ls, i : IF StartsAt(s, i, ".pdf") THEN i + 4 ELSE 0,
        filename, filename, 1)

\* bates_map.get(bates_start, "")
BatesEnd(bates_start) ==
    IF \E e \in BatesMap : e[1] = bates_start
    THEN (CHOOSE e \in BatesMap : e[1] = bates_start)[2]
    ELSE ""

\* the SELECT comparing the basename with column filepath
ExistingByPath(docs, filename) == \E id \in 1..Len(docs) : docs[id].filepath = filename

\* SELECT id FROM documents WHERE filename=? finds a row
Existing(docs, filename) == \E id \in 1..Len(docs) : docs[id].filename = filename

\* the row INSERT INTO documents adds; the columns the later stages add hold
\* their defaults
NewDocument(f, filename) ==
    [filename |-> filename, filepath |-> f.path, page_count |-> Len(f.pages),
     full_text |-> Join(f.pages, "\n"),
     bates_start |-> BatesStart(filename), bates_end |-> BatesEnd(BatesStart(filename)),
     doc_type |-> "", interest_score |-> 0, condensed |-> ""]

\* the rows of pages numbered as enumerate numbers them, from 0
NewPagesZeroBased(f, doc_id) ==
    [i \in 1..Len(f.pages) |-> [doc_id |-> doc_id, page_num |-> i - 1, text |-> f.pages[i]]]

\* the rows INSERT INTO pages adds for document doc_id
NewPages(f, doc_id) ==
    [i \in 1..Len(f.pages) |-> [doc_id |-> doc_id, page_num |-> i, text |-> f.pages[i]]]

\* the rows trigger pages_ai adds to search for the pages inserted after id base
NewEntries(f, filename, base) ==
    { [rowid |-> base + i, filename |-> filename, page_num |-> i, text |-> f.pages[i]] :
        i \in 1..Len(f.pages) }

RECURSIVE IngestLoop(_, _)
\* for pdf_path in sorted(pdfs): ... ; st is the connection's view of the
\* tables, the kinds of the lines printed (skip, ERROR opening, indexed) and
\* whether an exception ended the run
IngestLoop(files, st) ==
    IF files = <<>> \/ st.aborted THEN st
    ELSE LET f == Disk[Head(files)]
             filename == Basename(f.path)
             next ==
                 IF Existing(st.documents, filename)
                 THEN [st EXCEPT !.log = Append(@, "skip")]
                 ELSE IF f.status = "open_fails"
                 THEN [st EXCEPT !.log = Append(@, "ERROR opening")]
                 ELSE IF f.status = "extract_fails"
                 THEN [st EXCEPT !.aborted = TRUE]
                 ELSE [st EXCEPT
                         !.documents = Append(@, NewDocument(f, filename)),
                         !.pages = @ \o NewPages(f, Len(st.documents) + 1),
                         !.search = @ \cup NewEntries(f, filename, Len(st.pages)),
                         !.log = Append(@, "indexed")]
         IN  IngestLoop(Tail(files), next)

\* resets what the last /api/search request left
NoRequest ==
    /\ issued' = <<>>
    /\ response' = [status |-> 0, rows |-> <<>>]

\* the record of the run that ends now
RunOf(op, q, log) ==
    [op |-> op, q |-> q, log |-> log,
     streak |-> IF lastRun.op = op THEN MinOf(lastRun.streak + 1, 2) ELSE 1]

\* one run of ingest() that finds the files of batch: init_db commits the
\* tables; the rows are committed at the end of the loop, so a run that an
\* exception ends leaves no row
IngestBatch(batch) ==
        LET st0 == [documents |-> documents, pages |-> pages,
                    search |-> IF "search" \in schema THEN search ELSE {},
                    log |-> <<>>, aborted |-> FALSE]
            st == IngestLoop(SortedSeq(batch), st0)
            end == IF st.aborted THEN st0 ELSE st
        IN  /\ schema' = schema \cup {"documents", "pages", "search"}
            /\ documents' = end.documents
            /\ pages' = end.pages
            /\ search' = end.search
            /\ lastRun' = RunOf(IF st.aborted THEN "ingest_aborted" ELSE "ingest", "", end.log)
            /\ NoRequest
            /\ UNCHANGED <<fnVars, batchVars, cleanRun>>

\* one run of ingest()
Ingest == \E batch \in Batches : IngestBatch(batch)

(***************************************************************************)
(* clean.py: main                                                          *)
(***************************************************************************)

\* SELECT text FROM pages WHERE doc_id=? ORDER BY page_num
RECURSIVE PageTexts(_, _, _)
PageTexts(pgs, doc_id, done) ==
    LET left == { id \in 1..Len(pgs) : pgs[id].doc_id = doc_id /\ id \notin done }
    IN  IF left = {} THEN <<>>
        ELSE LET id == CHOOSE x \in left : \A y \in left : pgs[x].page_num <= pgs[y].page_num
             IN  <<pgs[id].text>> \o PageTexts(pgs, doc_id, done \cup {id})

\* the join of clean.py with the separator of ingest.py
CleanFullTextNewline(pgs, doc_id) == Join(PageTexts(pgs, doc_id, {}), "\n")

\* full = "\n\n".join(p[0] for p in pages)
CleanFullText(pgs, doc_id) == Join(PageTexts(pgs, doc_id, {}), "\n\n")

\* the index rebuilt from the page texts read before the first loop
RebuiltIndexStale(docs, pgs) ==
    { [rowid |-> id, filename |-> docs[pgs[id].doc_id].filename,
       page_num |-> pgs[id].page_num, text |-> pages[id].text] :
        id \in { x \in 1..Len(pgs) : pgs[x].doc_id \in 1..Len(docs) } }

\* the rows of search after DROP TABLE, CREATE VIRTUAL TABLE and the INSERT
\* of every row of pages JOIN documents
RebuiltIndex(docs, pgs) ==
    { [rowid |-> id, filename |-> docs[pgs[id].doc_id].filename,
       page_num |-> pgs[id].page_num, text |-> pgs[id].text] :
        id \in { x \in 1..Len(pgs) : pgs[x].doc_id \in 1..Len(docs) } }

\* one run of clean.py; without table pages the first SELECT raises
Clean ==
    /\ {"documents", "pages"} \subseteq schema
    /\ LET cleaned == [id \in 1..Len(pages) |->
                          [pages[id] EXCEPT !.text = clean_text(pages[id].text)]]
           updated == Cardinality({ id \in 1..Len(pages) : cleaned[id] # pages[id] })
           docs == [id \in 1..Len(documents) |->
                       [documents[id] EXCEPT !.full_text = CleanFullText(cleaned, id)]]
       IN  /\ pages' = cleaned
           /\ documents' = docs
           /\ search' = RebuiltIndex(docs, cleaned)
           /\ lastRun' = RunOf("clean", "", <<updated>>)
    /\ schema' = schema \cup {"search"}
    /\ NoRequest
    /\ UNCHANGED <<fnVars, batchVars, cleanRun>>

(***************************************************************************)
(* clean.py: main, statement by statement from the rebuild of the index    *)
(* on, for the requests that arrive while it runs.  Variable search holds  *)
(* the committed rows, which is what another connection reads.             *)
(***************************************************************************)

\* clean.py is not running
NoClean == [pc |-> "idle", updated |-> 0, idx_rows |-> {}, inserted |-> {}]

\* table search as other connections read it after every INSERT were
\* committed on its own
AfterInsertAutocommit(committed, row) == committed \cup {row}

\* table search as other connections read it after one INSERT of the loop:
\* sqlite3 opened a transaction at the first INSERT, and conn.commit() comes
\* after the loop
AfterInsert(committed, row) == committed

\* from sqlite3.connect to the second conn.commit(): the page texts and the
\* full texts are cleaned and committed
CleanTexts ==
    /\ cleanRun.pc \in {"idle", "killed"}
    /\ {"documents", "pages"} \subseteq schema
    /\ LET cleaned == [id \in 1..Len(pages) |->
                          [pages[id] EXCEPT !.text = clean_text(pages[id].text)]]
       IN  /\ pages' = cleaned
           /\ documents' = [id \in 1..Len(documents) |->
                               [documents[id] EXCEPT !.full_text = CleanFullText(cleaned, id)]]
           /\ cleanRun' = [NoClean EXCEPT
                             !.pc = "drop",
                             !.updated = Cardinality({ id \in 1..Len(pages) :
                                                         cleaned[id] # pages[id] })]
    /\ NoRequest
    /\ UNCHANGED <<schema, search, lastRun, fnVars, batchVars>>

\* conn.execute("DROP TABLE IF EXISTS search"): no transaction is open, the
\* statement is committed at once
RebuildDrop ==
    /\ cleanRun.pc = "drop"
    /\ schema' = schema \ {"search"}
    /\ search' = {}
    /\ cleanRun' = [cleanRun EXCEPT !.pc = "create"]
    /\ NoRequest
    /\ UNCHANGED <<documents, pages, lastRun, fnVars, batchVars>>

\* conn.execute("CREATE VIRTUAL TABLE search USING fts5(...)"), committed at
\* once, and idx_rows = conn.execute("SELECT ... FROM pages p JOIN documents d
\* ...").fetchall()
RebuildCreate ==
    /\ cleanRun.pc = "create"
    /\ schema' = schema \cup {"search"}
    /\ cleanRun' = [cleanRun EXCEPT !.pc = "insert",
                                    !.idx_rows = RebuiltIndex(documents, pages)]
    /\ NoRequest
    /\ UNCHANGED <<documents, pages, search, lastRun, fnVars, batchVars>>

\* one turn of the loop over idx_rows: the INSERT of the next row
RebuildInsert ==
    /\ cleanRun.pc = "insert"
    /\ cleanRun.inserted # cleanRun.idx_rows
    /\ LET left == cleanRun.idx_rows \ cleanRun.inserted
           r == CHOOSE x \in left : \A y \in left : x.rowid <= y.rowid
       IN  /\ cleanRun' = [cleanRun EXCEPT !.inserted = @ \cup {r}]
           /\ search' = AfterInsert(search, r)
    /\ NoRequest
    /\ UNCHANGED <<schema, documents, pages, lastRun, fnVars, batchVars>>

\* the conn.commit() after the loop, the print and conn.close()
RebuildCommit ==
    /\ cleanRun.pc = "insert"
    /\ cleanRun.inserted = cleanRun.idx_rows
    /\ search' = cleanRun.inserted
    /\ lastRun' = RunOf("clean", "", <<cleanRun.updated>>)
    /\ cleanRun' = NoClean
    /\ NoRequest
    /\ UNCHANGED <<schema, documents, pages, fnVars, batchVars>>

\* the process is killed before a statement of the rebuild: the open
\* transaction, if any, is rolled back; killed tells that table search had
\* been dropped
CleanKilled ==
    /\ cleanRun.pc \in {"drop", "create", "insert"}
    /\ cleanRun' = [NoClean EXCEPT !.pc = IF cleanRun.pc = "drop" THEN "idle" ELSE "killed"]
    /\ NoRequest
    /\ UNCHANGED <<schema, documents, pages, search, lastRun, fnVars, batchVars>>

(***************************************************************************)
(* classify.py: main                                                       *)
(***************************************************************************)

\* UPDATE documents SET doc_type=?, interest_score=? for one row
SetClassification(d, r) ==
    [d EXCEPT !.doc_type = r.doc_type, !.interest_score = r.score]

\* doc_type, score = classify(text, page_count) and the UPDATE of the row
ClassifyRow(d) == SetClassification(d, classify(Some(d.full_text), d.page_count))

\* one run of classify.py; without table documents the SELECT raises
Classify ==
    /\ "documents" \in schema
    /\ schema' = schema \cup {"doc_type", "interest_score"}
    /\ documents' = [id \in 1..Len(documents) |-> ClassifyRow(documents[id])]
    /\ lastRun' = RunOf("classify", "", <<>>)
    /\ NoRequest
    /\ UNCHANGED <<pages, search, fnVars, batchVars, cleanRun>>

(***************************************************************************)
(* condense.py: main                                                       *)
(***************************************************************************)

\* the UPDATE adding the new score to the stored one instead of replacing it
UpdateDocumentMerging(d, condensed, r) ==
    [d EXCEPT !.condensed = condensed, !.doc_type = r.doc_type,
              !.interest_score = MinOf(d.interest_score + r.score, 100)]

\* UPDATE documents SET condensed=?, doc_type=?, interest_score=? WHERE id=?
UpdateDocument(d, condensed, r) ==
    [d EXCEPT !.condensed = condensed, !.doc_type = r.doc_type,
              !.interest_score = r.score]

\* new_type, new_score = reclassify(full_text, condensed, doc_type, page_count)
\* and the UPDATE of the row
Reclassified(d, condensed) ==
    UpdateDocument(d, condensed,
                   reclassify(d.full_text, condensed, d.doc_type, d.page_count))

\* the body of the loop of main for one row of documents
CondenseRow(d) == Reclassified(d, condense_text(d.full_text))

\* one run of condense.py on a database classify.py has run on
Condense ==
    /\ {"documents", "doc_type"} \subseteq schema
    /\ schema' = schema \cup {"condensed"}
    /\ documents' = [id \in 1..Len(documents) |-> CondenseRow(documents[id])]
    /\ lastRun' = RunOf("condense", "", <<>>)
    /\ NoRequest
    /\ UNCHANGED <<pages, search, fnVars, batchVars, cleanRun>>

\* one run of condense.py before classify.py ever ran: column condensed is
\* added, then SELECT ... doc_type raises
CondenseAborted ==
    /\ "documents" \in schema
    /\ "doc_type" \notin schema
    /\ schema' = schema \cup {"condensed"}
    /\ lastRun' = RunOf("condense_aborted", "", <<>>)
    /\ NoRequest
    /\ UNCHANGED <<documents, pages, search, fnVars, batchVars, cleanRun>>

(***************************************************************************)
(* app.py: /api/search                                                     *)
(***************************************************************************)

\* LIMIT 100
SearchLimit == 100

\* the q parameters of the requests
Queries ==
    {"", " ??? ", "grand jury", "Lunch  meet", "AND", "efta0002", "wit-ness?", "EFTA",
     "w%ness", "jury grand", "not"}

RECURSIVE NonWhiteEnd(_, _)
\* the position after the run of non-whitespace that starts at i
NonWhiteEnd(s, i) ==
    IF i <= Len(s) /\ Ch(s, i) \notin WhiteChars THEN NonWhiteEnd(s, i + 1) ELSE i

RECURSIVE SplitWhite(_)
\* s.split()
SplitWhite(s) ==
    LET i == FirstNonWhite(s, 1)
        e == NonWhiteEnd(s, i)
    IN  IF i > Len(s) THEN <<>>
        ELSE <<SubSeq(s, i, e - 1)>> \o SplitWhite(SubSeq(s, e, Len(s)))

\* re.sub(r'[^\w]', '', t)
StripNonWord(t) == MapRange(LAMBDA c : IF c \in WordChars THEN c ELSE "", t, 1, Len(t))

RECURSIVE FtsParts(_)
\* the list parts of _build_fts_query
FtsParts(tokens) ==
    IF tokens = <<>> THEN <<>>
    ELSE LET clean == StripNonWord(Head(tokens))
         IN  (IF clean # "" THEN <<clean \o "*">> ELSE <<>>) \o FtsParts(Tail(tokens))

\* _build_fts_query(q)
build_fts_query(q) == Join(FtsParts(SplitWhite(q)), " AND ")

\* the barewords of the fts5 query "w1* AND w2* ..."
FtsTerms(fts_q) ==
    LET parts == Split(fts_q, " AND ")
    IN  { SubSeq(parts[k], 1, Len(parts[k]) - 1) : k \in 1..Len(parts) }

\* fts5 rejects the query: a bareword that is one of its operators
FtsSyntaxError(fts_q) == FtsTerms(fts_q) \cap {"AND", "OR", "NOT"} # {}

AlnumChars == AlphaChars \cup DigitChars

RECURSIVE AlnumEnd(_, _)
\* the position after the run of letters and digits that starts at i
AlnumEnd(s, i) ==
    IF i <= Len(s) /\ Ch(s, i) \in AlnumChars THEN AlnumEnd(s, i + 1) ELSE i

\* the positions at which a token of the unicode61 tokenizer starts
TokenStarts(s) ==
    { i \in 1..Len(s) : Ch(s, i) \in AlnumChars /\ (i = 1 \/ Ch(s, i - 1) \notin AlnumChars) }

\* the token that starts at i matches the prefix query term* (terms of
\* letters and digits only)
TokenMatches(s, i, terms) ==
    \E t \in terms : StartsAt(Lower(SubSeq(s, i, AlnumEnd(s, i) - 1)), 1, Lower(t))

RECURSIVE DecimalOf(_)
\* str(n) for n >= 0
DecimalOf(n) ==
    IF n < 10 THEN Ch("0123456789", n + 1)
    ELSE DecimalOf(n \div 10) \o Ch("0123456789", (n % 10) + 1)

\* the row of search satisfies MATCH fts_q: every term is the prefix of a
\* token of one of its columns
FtsMatches(e, fts_q) ==
    \A t \in FtsTerms(fts_q) :
        \E col \in {e.filename, DecimalOf(e.page_num), e.text} :
            \E i \in TokenStarts(col) : TokenMatches(col, i, {t})

\* replacement of s[i] under snippet(search, 2, '<mark>', '</mark>', '...', 40),
\* for a text of at most 40 tokens
MarkAt(terms, s, i) ==
    (IF i \in TokenStarts(s) /\ TokenMatches(s, i, terms) THEN "<mark>" ELSE "")
    \o Ch(s, i)
    \o (IF /\ Ch(s, i) \in AlnumChars
           /\ (i = Len(s) \/ Ch(s, i + 1) \notin AlnumChars)
           /\ \E b \in TokenStarts(s) : b <= i /\ AlnumEnd(s, b) = i + 1
                                        /\ TokenMatches(s, b, terms)
        THEN "</mark>" ELSE "")

RECURSIVE Snippet(_, _, _, _)
\* snippet(search, 2, '<mark>', '</mark>', '...', 40) of a text of at most 40 tokens
Snippet(terms, s, lo, hi) ==
    IF lo > hi THEN ""
    ELSE IF lo = hi THEN MarkAt(terms, s, lo)
    ELSE LET mid == (lo + hi) \div 2
         IN  Snippet(terms, s, lo, mid) \o Snippet(terms, s, mid + 1, hi)

\* the rows of the primary query before ORDER BY rank LIMIT 100
PrimaryRows(fts_q) ==
    { [doc_id |-> pages[e.rowid].doc_id, filename |-> e.filename,
       page_num |-> pages[e.rowid].page_num,
       snippet |-> Snippet(FtsTerms(fts_q), e.text, 1, Len(e.text))] :
        e \in { x \in search : x.rowid \in 1..Len(pages) /\ FtsMatches(x, fts_q) } }

\* the orders in which ORDER BY rank can return the rows (bm25 is the
\* engine's: any order), cut by LIMIT 100
RankOrders(rows) ==
    LET n == Cardinality(rows)
    IN  { SubSeq(f, 1, MinOf(n, SearchLimit)) :
            f \in { g \in [1..n -> rows] : \A a, b \in 1..n : g[a] = g[b] => a = b } }

RECURSIVE Like(_, _, _, _)
\* text LIKE pattern from positions j and i on; both already lower-cased
Like(pattern, i, text, j) ==
    IF i > Len(pattern) THEN j > Len(text)
    ELSE IF Ch(pattern, i) = "%"
         THEN \E k \in j..(Len(text) + 1) : Like(pattern, i + 1, text, k)
    ELSE /\ j <= Len(text)
         /\ (Ch(pattern, i) = "_" \/ Ch(pattern, i) = Ch(text, j))
         /\ Like(pattern, i + 1, text, j + 1)

\* substr(X, Y, Z) of SQLite for Y >= 1
Substr(x, y, z) == SubSeq(x, y, MinOf(y + z - 1, Len(x)))

\* instr(X, Y) of SQLite
Instr(x, y) ==
    LET occ == Occurrences(x, y) IN IF occ = {} THEN 0 ELSE Min(occ)

RECURSIVE FallbackRows(_, _, _)
\* the rows of the LIKE query, ORDER BY p.doc_id, p.page_num
FallbackRows(q, like_pattern, done) ==
    LET left == { id \in 1..Len(pages) :
                    /\ id \notin done
                    /\ pages[id].doc_id \in 1..Len(documents)
                    /\ Like(Lower(like_pattern), 1, Lower(pages[id].text), 1) }
    IN  IF left = {} THEN <<>>
        ELSE LET id == CHOOSE x \in left : \A y \in left :
                            \/ pages[x].doc_id < pages[y].doc_id
                            \/ /\ pages[x].doc_id = pages[y].doc_id
                               /\ pages[x].page_num <= pages[y].page_num
                 p == pages[id]
                 first == SplitWhite(q)[1]
             IN  << [doc_id |-> p.doc_id, filename |-> documents[p.doc_id].filename,
                     page_num |-> p.page_num,
                     snippet |-> Substr(p.text,
                                        MaxOf(1, Instr(Lower(p.text), Lower(first)) - 80),
                                        200)] >>
                 \o FallbackRows(q, like_pattern, done \cup {id})

\* the fallback that runs whatever the primary query returned
NeedsFallbackAlways(rows) == TRUE

\* if not rows:
NeedsFallback(rows) == rows = {}

\* one /api/search request
Search ==
    \E q0 \in Queries :
        LET q == Strip(q0)
            fts_q == build_fts_query(q)
            primaryOk == /\ fts_q # ""
                         /\ {"search", "pages"} \subseteq schema
                         /\ ~FtsSyntaxError(fts_q)
            primary == IF primaryOk THEN PrimaryRows(fts_q) ELSE {}
            like_pattern == "%" \o Join(SplitWhite(q), "%") \o "%"
            fallback == FallbackRows(q, like_pattern, {})
        IN  /\ lastRun' = RunOf("search", q0, <<>>)
            /\ IF q = ""
               THEN /\ issued' = <<>>
                    /\ response' = [status |-> 200, rows |-> <<>>]
               ELSE IF ~NeedsFallback(primary)
               THEN /\ issued' = <<"fts">>
                    /\ \E rows \in RankOrders(primary) :
                          response' = [status |-> 200, rows |-> rows]
               ELSE /\ issued' = (IF fts_q # "" THEN <<"fts">> ELSE <<>>) \o <<"like">>
                    /\ response' =
                          IF {"pages", "documents"} \subseteq schema
                          THEN [status |-> 200,
                                rows |-> SubSeq(fallback, 1, MinOf(Len(fallback), SearchLimit))]
                          ELSE [status |-> 500, rows |-> <<>>]
            /\ UNCHANGED <<schema, documents, pages, search, fnVars, batchVars, cleanRun>>

(***************************************************************************)
(* Inputs of the pure functions: texts built from fragments                *)
(***************************************************************************)

\* longest sequence of fragments concatenated into one input text
MaxFrags == 2

\* largest number of copies of LongPad at the head of a long input text
MaxPads == 2

\* largest number of calls made on one input
MaxCalls == 2

RECURSIVE Rep(_, _)
\* s * n
Rep(s, n) ==
    IF n <= 0 THEN ""
    ELSE IF n = 1 THEN s
    ELSE Rep(s, n \div 2) \o Rep(s, n - (n \div 2))

\* 2511 characters of plain prose without any marker
LongPad == Rep("lorem ipsum dolor sit amet ", 93)

RECURSIVE ConcatFrags(_, _)
\* "".join(frags[i] for i in idx)
ConcatFrags(frags, idx) ==
    IF idx = <<>> THEN "" ELSE frags[Head(idx)] \o ConcatFrags(frags, Tail(idx))

\* all sequences of at most n indices into frags
FragSeqs(frags, n) == UNION { [1..m -> 1..Len(frags)] : m \in 0..n }

\* the texts made of at most MaxFrags fragments, and the long texts: up to
\* MaxPads copies of LongPad followed by one fragment
TextsOf(frags) ==
    { ConcatFrags(frags, idx) : idx \in FragSeqs(frags, MaxFrags) }
    \cup { Rep(LongPad, n) \o frags[i] : n \in 1..MaxPads, i \in 1..Len(frags) }

ClassifyFrags ==
    << "From: a@b.com\n",
       "sworn testimony, Q. yes\n",
       "FBI arrest report\n",
       "court order filed ",
       "phone call record 1.TIF 2.tif ",
       "evidence ",
       "Epstein Maxwell Clinton ",
       "#1#2#3#4#5#6#7#8#9#0#1#2#",
       "notes about a lunch meeting last week, nothing else to say ",
       "the witness left the room today\n",
       "Q. did you go there A. no never\n" >>

(***************************************************************************)
(* SpecClassify: classify applied to every input                           *)
(***************************************************************************)

\* batch_fast.py has not run
NoBatch ==
    [pc |-> "idle", resumed |-> FALSE, selected |-> {}, remaining |-> {},
     unranked |-> {}, no_summary |-> {}, written |-> <<>>, calls |-> <<>>]

\* a new epstein.db: no table yet, nothing has run
EmptyDb ==
    /\ schema = {}
    /\ documents = <<>>
    /\ pages = <<>>
    /\ search = {}
    /\ lastRun = [op |-> "none", q |-> "", log |-> <<>>, streak |-> 0]
    /\ issued = <<>>
    /\ response = [status |-> 0, rows |-> <<>>]
    /\ enriched = <<>>
    /\ batchRun = NoBatch
    /\ cleanRun = NoClean

InitClassify ==
    /\ EmptyDb
    /\ fn = "none"
    /\ arg \in { [text |-> t, page_count |-> p] :
                    t \in {None} \cup { Some(x) : x \in TextsOf(ClassifyFrags) }, p \in {1, 2} }
    /\ ret = None
    /\ calls = 0

CallClassify ==
    /\ fn = "none"
    /\ fn' = "classify"
    /\ ret' = classify(arg.text, arg.page_count)
    /\ calls' = calls + 1
    /\ UNCHANGED <<arg, dbVars>>

SpecClassify == InitClassify /\ [][CallClassify]_vars

\* C1: classify returns a docType of the closed enumeration and an integer
\* score between 0 and 100, for every text (None and "" included) and every
\* page count.
C1_ClassifyInDomain ==
    fn = "classify" => /\ ret.doc_type \in DocTypes
                       /\ ret.score \in 0..100

\* classify has returned for a text whose markers add up to more than 100
C1_Witness ==
    /\ fn = "classify"
    /\ arg.text # None
    /\ ret.doc_type = "law_enforcement"
    /\ ret.score = 100

\* the text classify was given, stripped and in lower case
ArgLower == Lower(Strip(OrEmpty(arg.text)))

\* classify was given a text that neither step 1 nor step 2 ends on: at
\* least 20 characters, three in ten of them letters
PastTerminalSteps ==
    /\ fn = "classify"
    /\ Len(ArgLower) >= 20
    /\ CountChars(Strip(OrEmpty(arg.text)), AlphaChars) * 10 >= 3 * Len(ArgLower)

\* C22: a text that holds an evidence/property marker and also a
\* law-enforcement marker is classified evidence_list with a score of at
\* least 80: step 9 does not lower the score step 5 gave.
C22_EvidenceKeepsScore ==
    ( /\ PastTerminalSteps
      /\ \E m \in {"evidence", "property", "contents", "item quantity"} :
             Contains(ArgLower, m)
      /\ SearchWordStart(ArgLower, {"fbi", "arrest"}) )
    => /\ ret.doc_type = "evidence_list"
       /\ ret.score >= 80

\* the steps 3 to 9 of classify that match the text, as the code matches them
StepsMatched ==
    [s3 |-> SearchLineStart(ArgLower, EmailHeaders),
     s4 |-> \/ SearchWordStart(ArgLower, DepositionMarkers)
            \/ SearchWordStartThenSpace(ArgLower, DepositionDialogue),
     s5 |-> SearchWordStart(ArgLower, LawEnforcementMarkers),
     s6 |-> SearchWordStart(ArgLower, LegalMarkers),
     s7 |-> \/ SearchAny(ArgLower, PhoneMarkers)
            \/ SearchSameLine(ArgLower, "phone", "record"),
     s8 |-> \/ Count(ArgLower, ".tif") > 3
            \/ Count(ArgLower, ".jpg") > 3
            \/ Count(ArgLower, ".pdf") > 5,
     s9 |-> SearchAny(ArgLower, EvidenceMarkers)]

\* C23: a text whose only marker is the word witness, or a Q. or A. followed
\* by a space, is classified deposition with a score of at least 70.
C23_WitnessAloneIsDeposition ==
    ( /\ PastTerminalSteps
      /\ \/ SearchWordStart(ArgLower, {"witness"})
         \/ SearchWordStartThenSpace(ArgLower, {"q.", "a."})
      /\ ~SearchLineStart(ArgLower, EmailHeaders)
      /\ ~SearchWordStart(ArgLower, LawEnforcementMarkers \cup LegalMarkers)
      /\ ~SearchAny(ArgLower, PhoneMarkers \cup EvidenceMarkers)
      /\ ~SearchSameLine(ArgLower, "phone", "record")
      /\ Count(ArgLower, ".tif") <= 3 )
    => /\ ret.doc_type = "deposition"
       /\ ret.score >= 70

\* C24: the type classify returns for a text that passes steps 1 and 2 is
\* that of the last matching step among the forcing steps 5, 7, 8, 9; if none
\* of them matches it is email if step 3 matched, else deposition if step 4
\* matched, else legal if step 6 matched; a text no step matches gets one of
\* other, minimal, document.
C24_TypePrecedence ==
    PastTerminalSteps =>
        LET m == StepsMatched
        IN  IF m.s9 THEN ret.doc_type = "evidence_list"
            ELSE IF m.s8 THEN ret.doc_type = "file_listing"
            ELSE IF m.s7 THEN ret.doc_type = "phone_records"
            ELSE IF m.s5 THEN ret.doc_type = "law_enforcement"
            ELSE IF m.s3 THEN ret.doc_type = "email"
            ELSE IF m.s4 THEN ret.doc_type = "deposition"
            ELSE IF m.s6 THEN ret.doc_type = "legal"
            ELSE ret.doc_type \in {"other", "minimal", "document"}

\* classify has returned law_enforcement for a text that steps 5 and 6
\* match: step 5 forced the type and step 6 left it alone
C24_Witness ==
    /\ PastTerminalSteps
    /\ LET m == StepsMatched IN m.s5 /\ m.s6
    /\ ret.doc_type = "law_enforcement"

\* C25: for a text that passes steps 1 and 2 and that no step from 3 to 9
\* matches, a score under 20 gives minimal when the stripped text is shorter
\* than 100 characters and document otherwise, and a score of 20 or more
\* gives other; no text gets minimal or document with a score of 20 or more,
\* or other with a score under 20.
C25_UnidentifiedByScore ==
    PastTerminalSteps =>
        /\ (LET m == StepsMatched IN \A k \in DOMAIN m : ~m[k]) =>
               ret.doc_type = IF ret.score >= 20 THEN "other"
                              ELSE IF Len(ArgLower) < 100 THEN "minimal"
                              ELSE "document"
        /\ ret.doc_type \in {"minimal", "document"} => ret.score < 20
        /\ ret.doc_type = "other" => ret.score >= 20

\* classify has returned other with score 20 for a long text without any
\* marker: the two length bonuses alone reach the threshold
C25_Witness ==
    /\ PastTerminalSteps
    /\ LET m == StepsMatched IN \A k \in DOMAIN m : ~m[k]
    /\ Len(ArgLower) > 5000
    /\ ret = [doc_type |-> "other", score |-> 20]

(***************************************************************************)
(* SpecReclassify: reclassify applied to every input                       *)
(***************************************************************************)

ReclassifyFrags ==
    << "Q. Yes. A. No. Q. Why? A. So. Q. Oh. A. Ok. ",
       "Epstein victim arrest plea agreement ",
       "the witness gave an interview\n",
       "From: jeff\n",
       "a\nb\nc\nd\ne\nf\ng\nh\ni\nj\nk\n",
       "He left. She stayed. They talked about lunch. ",
       "FAQ. no\nQ. so\nA. ok\nQ. oh\nA. hm\nQ. eh\n" >>

InitReclassify ==
    /\ EmptyDb
    /\ fn = "none"
    \* doc_type holds a type or the column default ''
    /\ arg \in { [text |-> o[1], condensed |-> c, doc_type |-> d, page_count |-> o[2]] :
                    o \in { <<"", 0>>, <<"original text", 2>> },
                    c \in TextsOf(ReclassifyFrags), d \in DocTypes \cup {""} }
    /\ ret = None
    /\ calls = 0

CallReclassify ==
    /\ fn = "none"
    /\ fn' = "reclassify"
    /\ ret' = reclassify(arg.text, arg.condensed, arg.doc_type, arg.page_count)
    /\ calls' = calls + 1
    /\ UNCHANGED <<arg, dbVars>>

SpecReclassify == InitReclassify /\ [][CallReclassify]_vars

\* C2: the score reclassify returns lies between 0 and 100 whatever
\* combination of the additive adjustments and the tabular demotion applies.
C2_ReclassifyScoreClamped ==
    fn = "reclassify" => ret.score \in 0..100

\* reclassify has returned for a condensed text whose adjustments add up to
\* more than 100
C2_Witness ==
    /\ fn = "reclassify"
    /\ ret.doc_type = "deposition"
    /\ ret.score = 100

\* what reclassify returns for the arguments of the call when the prior type
\* is "other", a type none of its branches produces or tests
WithPriorOther == reclassify(arg.text, arg.condensed, "other", arg.page_count)

\* C4 as stated: for a fixed condensed text reclassify returns the same
\* (docType, score) for every priorDocType, so the result of every call equals
\* the result for the prior type "other".
C4_PriorNeverSurvives ==
    fn = "reclassify" => ret = WithPriorOther

\* C4 amended: the score is the same for every priorDocType; the docType is
\* the same for every priorDocType when the text is empty or the dialogue or
\* email branch sets it; otherwise the prior type is returned, except that
\* investigative language replaces a prior other than deposition and email by
\* law_enforcement.
C4_PriorSurvivesUnlessForced ==
    fn = "reclassify" =>
        LET other == WithPriorOther
        IN  /\ ret.score = other.score
            /\ CASE other.doc_type \in {"empty", "deposition", "email"} ->
                        ret.doc_type = other.doc_type
                 [] other.doc_type = "law_enforcement" ->
                        ret.doc_type = IF arg.doc_type \in {"deposition", "email"}
                                       THEN arg.doc_type ELSE "law_enforcement"
                 [] OTHER -> ret.doc_type = arg.doc_type

\* reclassify has returned a prior type deposition that investigative language
\* would otherwise have replaced
C4_Witness ==
    /\ fn = "reclassify"
    /\ arg.doc_type = "deposition"
    /\ WithPriorOther.doc_type = "law_enforcement"
    /\ ret.doc_type = "deposition"

\* what reclassify returns for the signals of the call's condensed text with
\* the count of dialogue markers set to 0
WithoutDialogue ==
    LET lower == Lower(arg.condensed)
    IN  ReclassifyByMarkers(
            arg.doc_type,
            Cardinality({ n \in key_names : Contains(lower, n) }),
            0,
            SentenceCount(arg.condensed),
            SearchAny(lower, InvestigativeMarkers),
            SearchAny(lower, LegalSubstanceMarkers),
            SearchLineStart(arg.condensed, {"From:", "Subject:"}),
            Tabular(Split(arg.condensed, "\n")),
            Len(arg.condensed))

\* the score of the call is the score without the markers plus 30, before
\* the cap at 100 and the floor at 0 of the tabular demotion
ThirtyHigher(base) ==
    IF Tabular(Split(arg.condensed, "\n"))
    THEN ret.score \in MinOf(base + 10, 100)..MinOf(base + 30, 100)
    ELSE ret.score = MinOf(base + 30, 100)

\* C19 as stated: for every condensed text of stripped length >= 30 that
\* holds the substrings "Q. " and "A. " six or more times, reclassify returns
\* deposition and a score 30 higher than without the markers, whatever else
\* the text holds.
C19_DialogueAlwaysDeposition ==
    (/\ fn = "reclassify"
     /\ Len(Strip(arg.condensed)) >= 30
     /\ Count(arg.condensed, "Q. ") + Count(arg.condensed, "A. ") >= 6) =>
        /\ ret.doc_type = "deposition"
        /\ ThirtyHigher(WithoutDialogue.score)

\* C19 amended: for every condensed text of stripped length >= 30 with six
\* or more markers Q. or A. that start a word and are followed by whitespace,
\* reclassify returns a score 30 higher than without the markers, and the
\* type deposition unless the email heuristic fires, which returns email.
C19_DialogueDepositionUnlessEmail ==
    (/\ fn = "reclassify"
     /\ Len(Strip(arg.condensed)) >= 30
     /\ QaCount(arg.condensed) >= 6) =>
        /\ ret.doc_type =
              IF /\ SearchLineStart(arg.condensed, {"From:", "Subject:"})
                 /\ (SentenceCount(arg.condensed) > 2 \/ Len(arg.condensed) > 300)
              THEN "email" ELSE "deposition"
        /\ ThirtyHigher(WithoutDialogue.score)

\* reclassify has returned email for a text that holds exactly six dialogue
\* markers after a From: line
C19_Witness ==
    /\ fn = "reclassify"
    /\ QaCount(arg.condensed) = 6
    /\ SearchLineStart(arg.condensed, {"From:", "Subject:"})
    /\ ret.doc_type = "email"

(***************************************************************************)
(* SpecClean: clean_text applied repeatedly to one page text               *)
(***************************************************************************)

CleanFrags ==
    << "item was not\n",
       "scanned here\n",
       "12\n",
       "Page 1 of 2\n",
       "EFTA0001 \n",
       "  The meeting ended,\n",
       "and they left.\n",
       "\n",
       "Shortly" >>

InitClean ==
    /\ EmptyDb
    /\ fn = "none"
    /\ arg \in { [text |-> t] : t \in TextsOf(CleanFrags) }
    /\ ret = None
    /\ calls = 0

\* the page text is replaced by clean_text of its current value
CallCleanText ==
    /\ calls < MaxCalls
    /\ fn' = "clean_text"
    /\ ret' = clean_text(IF calls = 0 THEN arg.text ELSE ret)
    /\ calls' = calls + 1
    /\ UNCHANGED <<arg, dbVars>>

SpecClean == InitClean /\ [][CallCleanText]_vars

\* C8: clean_text(clean_text(t)) = clean_text(t) for every page text t: the
\* second of two consecutive Cleaner passes over a page leaves it as the first
\* pass wrote it.
C8_CleanTextIdempotent ==
    (fn = "clean_text" /\ calls = 2) => ret = clean_text(arg.text)

(***************************************************************************)
(* SpecCondense: condense_text applied repeatedly to one full text         *)
(***************************************************************************)

CondenseFrags ==
    << "The agent met the witness at noon.\n",
       "\n\n",
       "Grand Jury Material under the rules of criminal procedure\nHe said nothing more about the trip. ",
       "12345 67890 12345 67890 12345 67890 ",
       "magnetic tape and computer disk or printed material ",
       "Chain of Custody form 12 ",
       "#### ---- .... ",
       "A1.bB2.cC3.dD4.e ",
       "Please consider the environment before printing this\n\nmore text follows here ok" >>

InitCondense ==
    /\ EmptyDb
    /\ fn = "none"
    /\ arg \in { [text |-> ConcatFrags(CondenseFrags, idx)] :
                    idx \in FragSeqs(CondenseFrags, MaxFrags) }
    /\ ret = <<>>
    /\ calls = 0

\* condense_text is applied to the text, then to what it returned; ret is
\* the list of the values returned so far
CallCondenseText ==
    /\ calls < MaxCalls
    /\ fn' = "condense_text"
    /\ ret' = Append(ret, condense_text(IF calls = 0 THEN arg.text ELSE ret[calls]))
    /\ calls' = calls + 1
    /\ UNCHANGED <<arg, dbVars>>

SpecCondense == InitCondense /\ [][CallCondenseText]_vars

RECURSIVE PartOfFrom(_, _, _, _)
\* the characters of a from position i on occur, in their order, in b from
\* position j on: a is b with some characters stripped
PartOfFrom(a, i, b, j) ==
    IF i > Len(a) THEN TRUE
    ELSE IF j > Len(b) THEN FALSE
    ELSE IF Ch(a, i) = Ch(b, j) THEN PartOfFrom(a, i + 1, b, j + 1)
    ELSE PartOfFrom(a, i, b, j + 1)

\* the text the k-th call was applied to
InputOf(k) == IF k = 1 THEN arg.text ELSE ret[k - 1]

\* the pages the k-th call kept
KeptBy(k) == KeptPages(Split(InputOf(k), "\n\n"))

\* C18: condensing never re-expands: what each call returns is no longer
\* than what it was applied to, so len(condense_text(condense_text(t))) <=
\* len(condense_text(t)) <= len(t), and every page kept by a later call is a
\* page kept by the call before it, or such a page with characters stripped.
C18_NeverReExpands ==
    fn = "condense_text" =>
        \A k \in 1..Len(ret) :
            /\ Len(ret[k]) <= Len(InputOf(k))
            /\ k > 1 =>
                  \A a \in 1..Len(KeptBy(k)) :
                      \E b \in 1..Len(KeptBy(k - 1)) :
                          PartOfFrom(KeptBy(k)[a], 1, KeptBy(k - 1)[b], 1)

\* condense_text was applied twice to a text of which the first call kept one
\* page and stripped a header inside it, and the second call kept the two
\* parts as two pages
C18_Witness ==
    /\ fn = "condense_text"
    /\ calls = 2
    /\ ret[1] # arg.text
    /\ Len(KeptBy(1)) = 1
    /\ Len(KeptBy(2)) = 2

(***************************************************************************)
(* Spec: the runs of the pipeline stages, in any order                     *)
(***************************************************************************)

Init ==
    /\ EmptyDb
    /\ fn = "none"
    /\ arg = None
    /\ ret = None
    /\ calls = 0

Next ==
    \/ Ingest
    \/ Clean
    \/ Classify
    \/ Condense
    \/ CondenseAborted

Spec == Init /\ [][Next]_vars

\* C3: after a complete Condense/Reclassify run every document has a doc_type
\* of the closed enumeration and an interest_score between 0 and 100, the
\* documents ingested after the last Classify run included.
C3_CondensedInDomain ==
    lastRun.op = "condense" =>
        \A id \in 1..Len(documents) :
            /\ documents[id].doc_type \in DocTypes
            /\ documents[id].interest_score \in 0..100

\* the text of page page_num of document doc_id
PageText(doc_id, page_num) ==
    LET id == CHOOSE x \in 1..Len(pages) :
                  pages[x].doc_id = doc_id /\ pages[x].page_num = page_num
    IN  pages[id].text

RECURSIVE PagesJoined(_, _, _)
\* the texts of pages 1..n of document doc_id with sep between them
PagesJoined(doc_id, n, sep) ==
    IF n = 0 THEN ""
    ELSE IF n = 1 THEN PageText(doc_id, 1)
    ELSE PagesJoined(doc_id, n - 1, sep) \o sep \o PageText(doc_id, n)

\* C5: right after a complete Cleaner run the full_text of every document is
\* its page texts, in ascending page number, joined with the Cleaner's
\* separator "\n\n".
C5_FullTextIsPagesJoined ==
    lastRun.op = "clean" =>
        \A id \in 1..Len(documents) :
            documents[id].full_text = PagesJoined(id, documents[id].page_count, "\n\n")

\* a Cleaner run has ended on a document of two pages, one of which it rewrote
C5_Witness ==
    /\ lastRun.op = "clean"
    /\ lastRun.log[1] > 0
    /\ \E id \in 1..Len(documents) :
          /\ documents[id].page_count = 2
          /\ Contains(documents[id].full_text, "\n\n")

\* C6: at every stage boundary the full_text of every document is its page
\* texts, in page-number order, joined with the one separator "\n\n" on which
\* the Condenser splits, the documents ingested after the last Cleaner run
\* included.
C6_OneSeparator ==
    \A id \in 1..Len(documents) :
        documents[id].full_text = PagesJoined(id, documents[id].page_count, "\n\n")

\* no two rows of documents have the same filename
OneDocumentPerFilename ==
    \A i, j \in 1..Len(documents) :
        documents[i].filename = documents[j].filename => i = j

\* the run that ends with this step is an ingest that printed "skip" for
\* every file it found
SkippedEveryFile ==
    /\ lastRun'.op = "ingest"
    /\ lastRun'.log # <<>>
    /\ \A k \in 1..Len(lastRun'.log) : lastRun'.log[k] = "skip"

\* C7: there is at most one document per filename, and an Ingest run over
\* files whose filenames are all present adds no row to documents or pages and
\* changes none, also when the Cleaner has rewritten the pages in between.
C7_IngestIdempotent ==
    [][/\ OneDocumentPerFilename'
       /\ SkippedEveryFile => (documents' = documents /\ pages' = pages)]_vars

\* an Ingest run has skipped every file it found, among them a file whose
\* pages the Cleaner has rewritten since its first ingestion
C7_Witness ==
    /\ lastRun.op = "ingest"
    /\ lastRun.log \in {<<"skip">>, <<"skip", "skip">>}
    /\ \E id \in 1..Len(pages) :
          pages[id].text # Disk[1].pages[pages[id].page_num]
          /\ documents[pages[id].doc_id].filepath = Disk[1].path

\* C9: a Condense/Reclassify run that directly follows another writes for
\* every document the condensed, doc_type and interest_score the first run
\* wrote, although it reads as prior doc_type what the first run wrote.
C9_CondenseIdempotent ==
    [][(lastRun.op = "condense" /\ lastRun'.op = "condense") =>
          documents' = documents]_vars

\* a second consecutive Condense/Reclassify run has ended on a document that
\* was ingested after the last Classify run: the first run read the column
\* default and wrote law_enforcement, the second read law_enforcement
C9_Witness ==
    /\ lastRun.op = "condense"
    /\ lastRun.streak = 2
    /\ \E id \in 1..Len(documents) :
          /\ documents[id].doc_type = "law_enforcement"
          /\ documents[id].interest_score > 0
          /\ classify(Some(documents[id].full_text), documents[id].page_count).doc_type
                = "deposition"

(***************************************************************************)
(* SpecSearch: search requests between the runs that write what /api/search *)
(* reads (tables documents, pages and search)                               *)
(***************************************************************************)

SpecSearch == Init /\ [][Ingest \/ Clean \/ Search]_vars

\* C10: for a query of which no token is left after splitting on whitespace
\* and stripping the non-word characters, search returns no row and issues
\* neither the full-text query nor the substring query.
C10_NoTokenNoQuery ==
    (lastRun.op = "search" /\ build_fts_query(Strip(lastRun.q)) = "") =>
        /\ response.rows = <<>>
        /\ issued = <<>>

\* the full-text query of the last request
LastFtsQuery == build_fts_query(Strip(lastRun.q))

\* the primary query of the last request raised: a table it reads is missing,
\* or fts5 rejects the query
LastPrimaryRaised ==
    ~({"search", "pages"} \subseteq schema) \/ FtsSyntaxError(LastFtsQuery)

\* the rows the index holds for the last request's full-text query
LastPrimaryRows == IF LastPrimaryRaised THEN {} ELSE PrimaryRows(LastFtsQuery)

\* the rows of the last response are the rows of the set, each once, cut at
\* the limit
ExactlyRows(rows) ==
    /\ Len(response.rows) = MinOf(Cardinality(rows), SearchLimit)
    /\ \A k \in 1..Len(response.rows) : response.rows[k] \in rows
    /\ \A a, b \in 1..Len(response.rows) :
          response.rows[a] = response.rows[b] => a = b

\* C11: for a query with a surviving token the substring query is issued if
\* and only if the full-text query raised or returned no row; when the
\* full-text query returns rows the response is exactly those rows and the
\* substring query is not issued, so no response mixes the two tiers.
C11_FallbackIffPrimaryEmpty ==
    (lastRun.op = "search" /\ LastFtsQuery # "") =>
        /\ issued[1] = "fts"
        /\ (Len(issued) = 2 /\ issued[2] = "like")
              <=> (LastPrimaryRaised \/ LastPrimaryRows = {})
        /\ LastPrimaryRows # {} =>
              /\ issued = <<"fts">>
              /\ response.status = 200
              /\ ExactlyRows(LastPrimaryRows)

\* a request was answered by the full-text query alone with three rows, none
\* of which the substring query would have returned
C11_Witness ==
    /\ lastRun.op = "search"
    /\ issued = <<"fts">>
    /\ Len(response.rows) = 3
    /\ FallbackRows(Strip(lastRun.q), "%" \o Strip(lastRun.q) \o "%", {}) = <<>>

RECURSIVE ContainsInOrder(_, _, _)
\* text holds the tokens as substrings, one after the other, from position
\* from on
ContainsInOrder(text, tokens, from) ==
    IF tokens = <<>> THEN TRUE
    ELSE LET occ == { i \in Occurrences(text, Head(tokens)) : i >= from }
         IN  /\ occ # {}
             /\ ContainsInOrder(text, Tail(tokens), Min(occ) + Len(Head(tokens)))

\* the pages of existing documents whose text holds, whatever the case, the
\* tokens of the last request's query in order
LiteralPages ==
    { id \in 1..Len(pages) :
        /\ pages[id].doc_id \in 1..Len(documents)
        /\ ContainsInOrder(Lower(pages[id].text),
                           SplitWhite(Lower(Strip(lastRun.q))), 1) }

\* row a of the response comes before row b in (doc_id, page_num) order
RowBefore(a, b) ==
    \/ a.doc_id < b.doc_id
    \/ a.doc_id = b.doc_id /\ a.page_num < b.page_num

\* C12: when the substring query answers, the response is the first at most
\* 100 pages, in ascending (doc_id, page_num) order, among the pages whose
\* text holds the query's tokens in order as substrings, whatever the case;
\* no response has more than 100 rows.
C12_FallbackLiteralSubstrings ==
    lastRun.op = "search" =>
        /\ Len(response.rows) <= SearchLimit
        /\ (issued # <<>> /\ issued[Len(issued)] = "like" /\ response.status = 200) =>
              /\ Len(response.rows) = MinOf(Cardinality(LiteralPages), SearchLimit)
              /\ \A k \in 1..Len(response.rows) :
                    \E id \in LiteralPages :
                        /\ pages[id].doc_id = response.rows[k].doc_id
                        /\ pages[id].page_num = response.rows[k].page_num
              /\ \A a, b \in 1..Len(response.rows) :
                    a < b => RowBefore(response.rows[a], response.rows[b])

\* C13: no request surfaces the failure of a query: a failure of the
\* full-text query leads to the substring query, and when the substring query
\* fails too the request is answered with an empty result, not with an error.
C13_NoFailureSurfaced ==
    lastRun.op = "search" =>
        /\ response.status = 200
        /\ (LastFtsQuery # "" /\ LastPrimaryRaised) => issued = <<"fts", "like">>
        /\ ~({"pages", "documents"} \subseteq schema) => response.rows = <<>>

\* the file of Disk a row of documents was read from
FileOf(d) == CHOOSE f \in 1..Len(Disk) : Disk[f].path = d.filepath

\* C14: a failure to open a file or to extract its page texts is confined to
\* that file: the run does not abort, the file gets no row in documents or
\* pages, and every readable file of the batch has its document afterwards.
C14_FailureConfined ==
    [][\A batch \in Batches :
          IngestBatch(batch) =>
              /\ lastRun'.op = "ingest"
              /\ \A id \in 1..Len(documents') :
                    Disk[FileOf(documents'[id])].status = "ok"
              /\ \A id \in 1..Len(pages') : pages'[id].doc_id \in 1..Len(documents')
              /\ \A f \in batch :
                    Disk[f].status = "ok" =>
                        Existing(documents', Basename(Disk[f].path))]_vars

\* the entries of search with rowid id
EntriesOf(id) == { e \in search : e.rowid = id }

\* C16: right after a completed index rebuild the index holds one entry per
\* row of pages and no other entry; the entry of a page has the page's id as
\* rowid and carries the filename of the page's document, the page number and
\* the page's current, cleaned text.
C16_IndexMirrorsPages ==
    lastRun.op = "clean" =>
        /\ "search" \in schema
        /\ Cardinality(search) = Len(pages)
        /\ \A id \in 1..Len(pages) :
              /\ pages[id].doc_id \in 1..Len(documents)
              /\ EntriesOf(id) =
                    { [rowid |-> id,
                       filename |-> documents[pages[id].doc_id].filename,
                       page_num |-> pages[id].page_num,
                       text |-> pages[id].text] }

\* an index rebuild has ended over three pages of two documents, in a run
\* that rewrote the text of a page
C16_Witness ==
    /\ lastRun.op = "clean"
    /\ lastRun.log[1] > 0
    /\ Len(pages) = 3
    /\ Len(documents) = 2
    /\ \E e \in search : e.text = "The grand jury heard the witness, and took a statement."

\* the rows of pages that are page page_num of document doc_id
PagesAt(doc_id, page_num) ==
    { id \in 1..Len(pages) :
        pages[id].doc_id = doc_id /\ pages[id].page_num = page_num }

\* C17: in every state the runs of the stages reach, the pages of each
\* document carry the page numbers 1..page_count, each exactly once, and
\* every page belongs to one existing document.
C17_PagesNumbered ==
    /\ \A doc_id \in 1..Len(documents) :
          \A page_num \in 1..documents[doc_id].page_count :
              Cardinality(PagesAt(doc_id, page_num)) = 1
    /\ \A id \in 1..Len(pages) :
          /\ pages[id].doc_id \in 1..Len(documents)
          /\ pages[id].page_num \in 1..documents[pages[id].doc_id].page_count

\* the two-page document was ingested after the one-page document and a
\* Clean run has rewritten the pages since
C17_Witness ==
    /\ Len(documents) = 2
    /\ documents[2].page_count = 2
    /\ Len(pages) = 3
    /\ pages[3].text = "item was not scanned here"

(***************************************************************************)
(* SpecInterrupt: runs of the stages and runs that the operating system    *)
(* kills inside their loop.  A killed process leaves what it committed:    *)
(* sqlite3 opens a transaction at the first INSERT or UPDATE and the       *)
(* statements CREATE and ALTER run outside one.                            *)
(***************************************************************************)

\* a run of stage killed after its loop has processed k files or rows and
\* before the conn.commit() that follows the loop; batch is what an ingest
\* run finds
Interrupted(stage, batch, k) ==
    /\ \/ /\ stage = "ingest"
          /\ k \in 1..Cardinality(batch)
          /\ LET st == IngestLoop(SubSeq(SortedSeq(batch), 1, k),
                                  [documents |-> documents, pages |-> pages,
                                   search |-> search, log |-> <<>>,
                                   aborted |-> FALSE])
             IN  /\ ~st.aborted
                 /\ lastRun' = RunOf("ingest_interrupted", "", st.log)
          /\ schema' = schema \cup {"documents", "pages", "search"}
          /\ pages' = pages
       \/ /\ stage = "clean"
          /\ batch = {}
          /\ {"documents", "pages"} \subseteq schema
          /\ k \in 1..Len(documents)
          /\ lastRun' = RunOf("clean_interrupted", "", <<k>>)
          /\ schema' = schema
          /\ pages' = [id \in 1..Len(pages) |->
                          [pages[id] EXCEPT !.text = clean_text(pages[id].text)]]
       \/ /\ stage = "classify"
          /\ batch = {}
          /\ "documents" \in schema
          /\ k \in 1..Len(documents)
          /\ lastRun' = RunOf("classify_interrupted", "", <<k>>)
          /\ schema' = schema \cup {"doc_type", "interest_score"}
          /\ pages' = pages
       \/ /\ stage = "condense"
          /\ batch = {}
          /\ {"documents", "doc_type"} \subseteq schema
          /\ k \in 1..Len(documents)
          /\ lastRun' = RunOf("condense_interrupted", "", <<k>>)
          /\ schema' = schema \cup {"condensed"}
          /\ pages' = pages
    /\ NoRequest
    /\ UNCHANGED <<documents, search, fnVars, batchVars, cleanRun>>

SpecInterrupt ==
    Init /\ [][\/ Ingest
               \/ Classify
               \/ \E stage \in {"ingest", "clean", "classify", "condense"},
                     batch \in Batches, k \in 1..Len(Disk) :
                     Interrupted(stage, batch, k)]_vars

\* C15: every stage commits row by row: when a run is killed after its loop
\* has processed k files or rows, the database holds the results of those k:
\* the documents of the readable new files (ingest), the rejoined full_text
\* (clean), the classification (classify), the condensed text and the
\* reclassification (condense).
C15_CommitsPerRow ==
    [][\A stage \in {"ingest", "clean", "classify", "condense"}, batch \in Batches, k \in 1..Len(Disk) :
          Interrupted(stage, batch, k) =>
              CASE stage = "ingest" ->
                     \A j \in 1..k :
                         Disk[SortedSeq(batch)[j]].status = "ok" =>
                             Existing(documents',
                                      Basename(Disk[SortedSeq(batch)[j]].path))
                [] stage = "clean" ->
                     \A id \in 1..k :
                         documents'[id].full_text = CleanFullText(pages', id)
                [] stage = "classify" ->
                     \A id \in 1..k : documents'[id] = ClassifyRow(documents[id])
                [] stage = "condense" ->
                     \A id \in 1..k : documents'[id] = CondenseRow(documents[id])]_vars

(***************************************************************************)
(* batch_fast.py: summaries and news scores from the enrichment service    *)
(***************************************************************************)

\* for attempt in range(3)
MaxTries == 3

\* most attempts in a row the service fails before it answers
MaxFails == 4

\* the loop of call_gemini has used up its attempts
ExhaustedLater(attempt) == attempt > MaxTries

\* the loop of call_gemini has used up its attempts
Exhausted(attempt) == attempt >= MaxTries

RECURSIVE Attempt(_, _, _)
\* the loop of call_gemini from attempt on, with a service that fails the
\* first fails requests (timeout, HTTP 429, malformed body: every exception
\* is caught) and then answers text; attempts counts the requests sent
Attempt(attempt, fails, text) ==
    IF Exhausted(attempt) THEN [result |-> None, attempts |-> attempt]
    ELSE IF attempt < fails THEN Attempt(attempt + 1, fails, text)
    ELSE [result |-> Some(text), attempts |-> attempt + 1]

\* call_gemini(prompt): the text of the answer, or None
call_gemini(fails, text) == Attempt(0, fails, text)

\* what the service does with the calls made for one document: the failures
\* before each answer, the summary text, and the answer to the rank prompt by
\* what json.loads makes of it (an object, an object inside a ``` fence, or
\* no JSON at all)
ServiceRuns ==
    [summary_fails : 0..MaxFails,
     summary : {"", "Interview notes naming a witness."},
     rank_fails : 0..MaxFails,
     rank : { [kind |-> "object", score |-> 85, reason |-> "names a witness"],
              [kind |-> "fenced", score |-> 60, reason |-> "routine"],
              [kind |-> "object", score |-> 0, reason |-> "nothing new"],
              [kind |-> "text", score |-> 0, reason |-> ""] }]

\* news_score and reason read from the answer to a rank prompt; anything
\* that is not the JSON object leaves score 0 and reason ""
ParseRank(rank_resp) ==
    IF rank_resp = None \/ rank_resp[1].kind = "text"
    THEN [news_score |-> 0, news_reason |-> ""]
    ELSE [news_score |-> rank_resp[1].score, news_reason |-> rank_resp[1].reason]

\* summarize_doc(row): summary is None when no summary came back; calls are
\* the numbers of requests sent by each call_gemini
summarize_doc(d, svc) ==
    LET text == IF d.condensed # "" /\ Len(d.condensed) > 50 THEN d.condensed
                ELSE d.full_text
    IN IF text = "" \/ Len(Strip(text)) < 30
       THEN [summary |-> Some("[No extractable text]"), news_score |-> 0,
             news_reason |-> "", calls |-> <<>>]
       ELSE LET s == call_gemini(svc.summary_fails, svc.summary)
            IN IF s.result = None \/ s.result = Some("")
               THEN [summary |-> None, news_score |-> 0, news_reason |-> "",
                     calls |-> <<s.attempts>>]
               ELSE LET r == call_gemini(svc.rank_fails, svc.rank)
                        p == ParseRank(r.result)
                    IN [summary |-> s.result, news_score |-> p.news_score,
                        news_reason |-> p.news_reason,
                        calls |-> <<s.attempts, r.attempts>>]

\* rank_existing(row)
rank_existing(svc) ==
    LET r == call_gemini(svc.rank_fails, svc.rank)
        p == ParseRank(r.result)
    IN [news_score |-> p.news_score, news_reason |-> p.news_reason,
        calls |-> <<r.attempts>>]

\* columns ai_summary, news_score, news_reason of row id; a row never
\* written holds the defaults of ALTER TABLE
Enriched(rows, id) ==
    IF id \in DOMAIN rows THEN rows[id]
    ELSE [ai_summary |-> "", news_score |-> 0, news_reason |-> ""]

\* UPDATE documents SET ... WHERE id=? and conn.commit()
Committed(rows, id, row) ==
    [x \in DOMAIN rows \cup {id} |-> IF x = id THEN row ELSE rows[x]]

\* a row the first SELECT would take whatever its news_score is
UnsummarizedOrUnranked(row) == row.ai_summary = "" \/ row.news_score = 0

\* (ai_summary IS NULL OR ai_summary = '')
Unsummarized(row) == row.ai_summary = ""

\* main up to the two SELECTs: the columns are added, the documents to
\* summarize and the summaries to rank are read
BatchStart ==
    /\ batchRun.pc # "running"
    /\ {"documents", "interest_score", "condensed"} \subseteq schema
    /\ schema' = schema \cup {"ai_summary", "news_score", "news_reason"}
    /\ LET ids == 1..Len(documents)
           remaining == { id \in ids : /\ documents[id].interest_score >= 40
                                       /\ Unsummarized(Enriched(enriched, id)) }
           unranked == { id \in ids : /\ Enriched(enriched, id).ai_summary # ""
                                      /\ Enriched(enriched, id).news_score = 0 }
       IN batchRun' = [pc |-> "running", resumed |-> batchRun.pc = "killed",
                       selected |-> remaining, remaining |-> remaining,
                       unranked |-> unranked, no_summary |-> {},
                       written |-> <<>>, calls |-> <<>>]
    /\ UNCHANGED <<documents, pages, search, lastRun, issued, response, enriched, fnVars, cleanRun>>

\* one future of the first pool completes, in any order: the summary, if
\* there is one, is written and committed
SummaryDone(id, svc) ==
    /\ batchRun.pc = "running"
    /\ id \in batchRun.remaining
    /\ LET r == summarize_doc(documents[id], svc)
       IN /\ enriched' =
                 IF r.summary # None
                 THEN Committed(enriched, id,
                                [ai_summary |-> r.summary[1], news_score |-> r.news_score,
                                 news_reason |-> r.news_reason])
                 ELSE enriched
          /\ batchRun' = [batchRun EXCEPT
                            !.remaining = @ \ {id},
                            !.no_summary = IF r.summary = None THEN @ \cup {id} ELSE @,
                            !.written = IF r.summary # None THEN Append(@, id) ELSE @,
                            !.calls = r.calls]
    /\ UNCHANGED <<schema, documents, pages, search, lastRun, issued, response, fnVars, cleanRun>>

\* one future of the second pool completes: score and reason are written
\* and committed, whatever they are
RankDone(id, svc) ==
    /\ batchRun.pc = "running"
    /\ batchRun.remaining = {}
    /\ id \in batchRun.unranked
    /\ LET r == rank_existing(svc)
       IN /\ enriched' = Committed(enriched, id,
                                   [Enriched(enriched, id) EXCEPT
                                      !.news_score = r.news_score,
                                      !.news_reason = r.news_reason])
          /\ batchRun' = [batchRun EXCEPT !.unranked = @ \ {id},
                                          !.written = Append(@, id),
                                          !.calls = r.calls]
    /\ UNCHANGED <<schema, documents, pages, search, lastRun, issued, response, fnVars, cleanRun>>

\* both pools are done: the final statistics are printed, the run ends
BatchEnd ==
    /\ batchRun.pc = "running"
    /\ batchRun.remaining = {}
    /\ batchRun.unranked = {}
    /\ batchRun' = [batchRun EXCEPT !.pc = "done"]
    /\ UNCHANGED <<schema, documents, pages, search, lastRun, issued, response, enriched, fnVars, cleanRun>>

\* the process is killed while the pools run: what is committed stays, the
\* documents not yet written are left as they were
BatchKilled ==
    /\ batchRun.pc = "running"
    /\ batchRun' = [batchRun EXCEPT !.pc = "killed"]
    /\ UNCHANGED <<schema, documents, pages, search, lastRun, issued, response, enriched, fnVars, cleanRun>>

(***************************************************************************)
(* SpecBatch: runs of batch_fast.py on a database the pipeline has filled  *)
(***************************************************************************)

\* the files ingested; the last one is ingested after condense.py ran
BatchCorpus ==
    << [path |-> "a/EFTA0001.pdf", status |-> "ok",
        pages |-> << "The grand jury heard the witness,\nand took a statement.\n" >>],
       [path |-> "a/EFTA0002.pdf", status |-> "ok",
        pages |-> << "FBI arrest report about Epstein and Maxwell in Florida\n" >>],
       [path |-> "a/EFTA0003.pdf", status |-> "ok",
        pages |-> << "notes about a lunch meeting last week, nothing else to say\n" >>],
       [path |-> "b/EFTA0004.pdf", status |-> "ok",
        pages |-> << "FBI arrest of Epstein x" >>] >>

\* ingest.py, classify.py and condense.py ran over the first files, then
\* ingest.py and classify.py again with the last file added
InitBatch ==
    /\ schema = {"documents", "pages", "search", "doc_type", "interest_score", "condensed"}
    /\ documents =
           [id \in 1..Len(BatchCorpus) |->
               LET f == BatchCorpus[id]
                   d == NewDocument(f, Basename(f.path))
               IN ClassifyRow(IF id < Len(BatchCorpus) THEN CondenseRow(ClassifyRow(d)) ELSE d)]
    /\ pages = [id \in 1..Len(BatchCorpus) |-> NewPages(BatchCorpus[id], id)[1]]
    /\ search = UNION { NewEntries(BatchCorpus[id], Basename(BatchCorpus[id].path), id - 1) :
                          id \in 1..Len(BatchCorpus) }
    /\ lastRun = [op |-> "classify", q |-> "", log |-> <<>>, streak |-> 1]
    /\ issued = <<>>
    /\ response = [status |-> 0, rows |-> <<>>]
    /\ enriched = <<>>
    /\ batchRun = NoBatch
    /\ cleanRun = NoClean
    /\ fn = "none"
    /\ arg = None
    /\ ret = None
    /\ calls = 0

SpecBatch ==
    InitBatch /\ [][\/ BatchStart
                    \/ \E id \in 1..Len(documents), svc \in ServiceRuns : SummaryDone(id, svc)
                    \/ \E id \in 1..Len(documents), svc \in ServiceRuns : RankDone(id, svc)
                    \/ BatchEnd
                    \/ BatchKilled]_vars

\* the documents of the run whose future has completed
Processed == batchRun.selected \ batchRun.remaining

\* C20: in a run of the enrichment batch every call to the service sends at
\* most three requests; a document whose summary request is exhausted keeps
\* an empty ai_summary; every other document of the run whose future has
\* completed has its summary in the database from that moment on, before the
\* run ends; and the run that ends has processed every document it selected.
C20_ExhaustionIsNotFatal ==
    /\ \A k \in 1..Len(batchRun.calls) : batchRun.calls[k] <= 3
    /\ \A id \in batchRun.no_summary : Enriched(enriched, id).ai_summary = ""
    /\ \A id \in Processed \ batchRun.no_summary : Enriched(enriched, id).ai_summary # ""
    /\ batchRun.pc = "done" => Processed = batchRun.selected

\* a run has ended in which the last future to complete sent three summary
\* requests and got nothing, while another document was summarized
C20_Witness ==
    /\ batchRun.pc = "done"
    /\ batchRun.calls = <<3>>
    /\ batchRun.no_summary # {}
    /\ \E id \in Processed \ batchRun.no_summary :
           Enriched(enriched, id).ai_summary = "Interview notes naming a witness."

\* C21: over any number of runs of the enrichment batch, killed ones
\* included: a document with a non-empty ai_summary keeps that ai_summary and
\* is not among the documents a new run selects to summarize; the documents
\* the run before left unprocessed or without a summary are selected by the
\* next run; and no run writes a document twice.
C21_RerunsIdempotent ==
    [][ /\ \A id \in 1..Len(documents) :
              Enriched(enriched, id).ai_summary # "" =>
                  Enriched(enriched', id).ai_summary = Enriched(enriched, id).ai_summary
        /\ BatchStart =>
              /\ \A id \in batchRun'.selected : Enriched(enriched, id).ai_summary = ""
              /\ (batchRun.remaining \cup batchRun.no_summary) \subseteq batchRun'.selected
              /\ batchRun'.selected \cap batchRun'.unranked = {}
        /\ \A i, j \in 1..Len(batchRun'.written) :
              batchRun'.written[i] = batchRun'.written[j] => i = j ]_vars

\* a run that followed a killed one has ended: it summarized a document the
\* killed run had left, ranked a summary that run had written without a
\* score, and did not select a document that run had summarized
C21_Witness ==
    /\ batchRun.pc = "done"
    /\ batchRun.resumed
    /\ Len(batchRun.written) >= 2
    /\ \E id \in batchRun.selected : Enriched(enriched, id).ai_summary # ""
    /\ \E id \in 1..Len(documents) :
          /\ documents[id].interest_score >= 40
          /\ id \notin batchRun.selected
          /\ Enriched(enriched, id).news_score > 0

(***************************************************************************)
(* SpecRebuild: /api/search requests between the statements of the runs of *)
(* clean.py, which may be killed, on a database that ingest.py filled      *)
(***************************************************************************)

\* ingest.py has run once and found the two files of Disk that fitz reads
InitRebuild ==
    LET st == IngestLoop(<<1, 3>>, [documents |-> <<>>, pages |-> <<>>, search |-> {},
                                    log |-> <<>>, aborted |-> FALSE])
    IN  /\ schema = {"documents", "pages", "search"}
        /\ documents = st.documents
        /\ pages = st.pages
        /\ search = st.search
        /\ lastRun = [op |-> "ingest", q |-> "", log |-> st.log, streak |-> 1]
        /\ issued = <<>>
        /\ response = [status |-> 0, rows |-> <<>>]
        /\ enriched = <<>>
        /\ batchRun = NoBatch
        /\ cleanRun = NoClean
        /\ fn = "none"
        /\ arg = None
        /\ ret = None
        /\ calls = 0

SpecRebuild ==
    InitRebuild /\ [][CleanTexts \/ RebuildDrop \/ RebuildCreate \/ RebuildInsert
                     \/ RebuildCommit \/ CleanKilled \/ Search]_vars

\* a request was answered after the rebuild of the index has dropped table
\* search and before it has committed its rows, or after it was killed
\* there
AnsweredDuringRebuild ==
    /\ cleanRun.pc \in {"create", "insert", "killed"}
    /\ response.status # 0
    /\ Strip(lastRun.q) # ""

\* the response holds the page
Answered(id) ==
    \E k \in 1..Len(response.rows) :
        /\ response.rows[k].doc_id = pages[id].doc_id
        /\ response.rows[k].page_num = pages[id].page_num

\* the pages of existing documents whose text holds, whatever the case, every
\* token of the last request's query
TokenPages ==
    LET tokens == SplitWhite(Strip(lastRun.q))
    IN  { id \in 1..Len(pages) :
            /\ pages[id].doc_id \in 1..Len(documents)
            /\ \A k \in 1..Len(tokens) : Contains(Lower(pages[id].text), Lower(tokens[k])) }

\* C26 as stated: a request answered while the index is dropped, empty or
\* partly refilled by a rebuild in progress or killed gets no error, and
\* every page that holds the tokens of the query is in the response.
C26_EveryTokenPageFound ==
    AnsweredDuringRebuild =>
        /\ response.status = 200
        /\ \A id \in TokenPages : Answered(id)

\* C26: a request answered after a rebuild of the index has dropped table
\* search and before it has committed its rows, or after it was killed
\* there, reads no index or an empty one, never a partly refilled one; it
\* gets status 200 and the rows of the substring query, which hold every page
\* whose text has the tokens of the query one after the other in the order
\* of the query.
C26_SearchDuringRebuild ==
    AnsweredDuringRebuild =>
        /\ "search" \in schema => search = {}
        /\ response.status = 200
        /\ issued[Len(issued)] = "like"
        /\ \A id \in LiteralPages : Answered(id)

\* a request for "not" was answered from the substring query with the two
\* pages that hold it, while the rebuild had inserted one of them and not
\* the other
C26_Witness ==
    /\ AnsweredDuringRebuild
    /\ cleanRun.pc = "insert"
    /\ cleanRun.inserted # {}
    /\ cleanRun.inserted # cleanRun.idx_rows
    /\ lastRun.q = "not"
    /\ Len(response.rows) = 2
    /\ \E a \in LiteralPages : \E b \in LiteralPages :
          /\ a \in { r.rowid : r \in cleanRun.inserted }
          /\ b \notin { r.rowid : r \in cleanRun.inserted }

====
